---- MODULE Spec2Model ----
(***************************************************************************)
(* Expression translation pipeline and line evaluation of the astrotools   *)
(* calculator (src/src/app/page.tsx).                                      *)
(*                                                                         *)
(* Strings are TLA+ strings.  Positions are 1-based: the JavaScript index  *)
(* i is the position i + 1 here, an exclusive end index e is the position  *)
(* e + 1 of the first character after the span, and the "not found" value  *)
(* -1 of indexOf is 0.  A regular expression is modelled by the matcher it *)
(* denotes: alternatives are tried in the order written, quantifiers are   *)
(* greedy, and a global replace scans left to right over the original      *)
(* string, resuming after each match.                                      *)
(***************************************************************************)
EXTENDS Integers, Sequences, FiniteSets, TLC

(***************************************************************************)
(* Characters and substrings                                               *)
(***************************************************************************)

Digits == {"0", "1", "2", "3", "4", "5", "6", "7", "8", "9"}

LowerLetters ==
    {"a", "b", "c", "d", "e", "f", "g", "h", "i", "j", "k", "l", "m",
     "n", "o", "p", "q", "r", "s", "t", "u", "v", "w", "x", "y", "z"}

UpperLetters ==
    {"A", "B", "C", "D", "E", "F", "G", "H", "I", "J", "K", "L", "M",
     "N", "O", "P", "Q", "R", "S", "T", "U", "V", "W", "X", "Y", "Z"}

\* [a-zA-Z]
IsLetter(c) == c \in LowerLetters \/ c \in UpperLetters

\* \d
IsDigit(c) == c \in Digits

\* \w
IsWordChar(c) == IsLetter(c) \/ IsDigit(c) \/ c = "_"

\* [a-zA-Z_]
IsIdentStart(c) == IsLetter(c) \/ c = "_"

\* s[i] of JavaScript: the character at a position, "" outside the string
\* (where JavaScript gives undefined).
Char(s, i) == IF i >= 1 /\ i <= Len(s) THEN SubSeq(s, i, i) ELSE ""

\* s.slice(a, b): the characters at the positions a .. b - 1 that lie in
\* the string.
Slice(s, a, b) ==
    LET lo == IF a < 1 THEN 1 ELSE a
        hi == IF b - 1 > Len(s) THEN Len(s) ELSE b - 1
    IN IF lo > hi THEN "" ELSE SubSeq(s, lo, hi)

\* s.slice(a)
SliceFrom(s, a) == Slice(s, a, Len(s) + 1)

\* Whether pat occurs in s at position p.
StartsWithAt(s, p, pat) ==
    /\ p >= 1
    /\ p + Len(pat) - 1 <= Len(s)
    /\ SubSeq(s, p, p + Len(pat) - 1) = pat

\* The value of the last of a list of steps.  The steps are written as a
\* tuple, whose elements are evaluated in their order: each step is computed
\* from the finished value of the one before it.
InOrder(steps) == steps[Len(steps)]

\* The least and the greatest element of a set of positions, 0 when empty.
\* The set is computed once, as T, and the element is chosen from T.
FirstPos(S) ==
    CHOOSE r \in {IF T = {} THEN 0
                  ELSE CHOOSE i \in T : \A j \in T : i <= j : T \in {S}} :
        TRUE

LastPos(S) ==
    CHOOSE r \in {IF T = {} THEN 0
                  ELSE CHOOSE i \in T : \A j \in T : j <= i : T \in {S}} :
        TRUE

Max(a, b) == IF a >= b THEN a ELSE b

\* s.indexOf(pat, from): the first position >= from where pat occurs, or 0.
IndexOf(s, pat, from) ==
    FirstPos({i \in Max(from, 1) .. (Len(s) - Len(pat) + 1) :
                StartsWithAt(s, i, pat)})

Contains(s, pat) == IndexOf(s, pat, 1) # 0

RECURSIVE ReplaceAllFrom(_, _, _, _)
\* The scan of a global replace from position p: the text up to the next
\* occurrence, the replacement, and the scan of what follows it.
ReplaceAllFrom(s, pat, rep, p) ==
    LET m == IndexOf(s, pat, p) IN
    IF m = 0 THEN SliceFrom(s, p)
    ELSE Slice(s, p, m) \o rep \o ReplaceAllFrom(s, pat, rep, m + Len(pat))

\* s.replace(/pat/g, rep) for a literal, non-empty pattern.
ReplaceAll(s, pat, rep) == ReplaceAllFrom(s, pat, rep, 1)

Letters == LowerLetters \cup UpperLetters

\* \w as a set
WordChars == Letters \cup Digits \cup {"_"}

\* The first position >= p whose character is not in the class: the end of
\* the greedy run [class]* that starts at p.
RunEndIn(s, p, class) ==
    IF p > Len(s) THEN p
    ELSE FirstPos({i \in p .. (Len(s) + 1) : Char(s, i) \notin class})

\* The same for a negated class [^...]*.
RunEndNotIn(s, p, excluded) ==
    IF p > Len(s) THEN p
    ELSE FirstPos({i \in p .. (Len(s) + 1) :
                     i = Len(s) + 1 \/ Char(s, i) \in excluded})

\* \b at position p: exactly one of the characters around it is a word
\* character.
WordBoundary(s, p) == IsWordChar(Char(s, p - 1)) # IsWordChar(Char(s, p))

(***************************************************************************)
(* The recognized function names                                           *)
(***************************************************************************)

FUNCTION_NAMES ==
    << "__const", "asin", "acos", "atan", "asinh", "acosh", "atanh",
       "sinh", "cosh", "tanh", "sin", "cos", "tan", "sec", "csc", "cot",
       "sqrt", "sum", "prod", "int", "ln", "log", "log10", "log2", "exp",
       "abs", "floor", "ceil", "round", "mod", "gcd", "lcm", "factorial",
       "combinations", "permutations" >>

FunctionNameSet == {FUNCTION_NAMES[k] : k \in DOMAIN FUNCTION_NAMES}

RECURSIVE MaxLenOf(_)
MaxLenOf(names) ==
    IF names = <<>> THEN 0 ELSE Max(Len(Head(names)), MaxLenOf(Tail(names)))

RECURSIVE ByLengthDown(_, _)
\* The names of length n, then those of length n - 1, ...: each group in
\* the order of the list.
ByLengthDown(names, n) ==
    IF n = 0 THEN <<>>
    ELSE SelectSeq(names, LAMBDA x : Len(x) = n) \o ByLengthDown(names, n - 1)

\* [...FUNCTION_NAMES].sort((a, b) => b.length - a.length): longest first,
\* names of equal length in their order in the list (the sort is stable).
sortedFns == ByLengthDown(FUNCTION_NAMES, MaxLenOf(FUNCTION_NAMES))

(***************************************************************************)
(* stripWhitespaceOutsideStrings                                           *)
(*                                                                         *)
(* The source reads the string one character at a time with the flags      *)
(* inString and escaped.  The operators below take the same walk a span at *)
(* a time: outside a literal up to the next quote, inside a literal up to  *)
(* the next backslash or quote.                                            *)
(***************************************************************************)

\* \s
SpaceChars == {" ", "\t", "\n", "\r", "\f"}

RECURSIVE dropSpaces(_, _)
\* if (/\s/.test(ch)) continue; out += ch;  over a span without quotes
dropSpaces(s, p) ==
    LET m == FirstPos({i \in p .. Len(s) : Char(s, i) \in SpaceChars}) IN
    IF m = 0 THEN SliceFrom(s, p)
    ELSE Slice(s, p, m) \o dropSpaces(s, m + 1)

RECURSIVE stripOutside(_, _)
RECURSIVE stripInside(_, _)
\* inString = false at position i
stripOutside(s, i) ==
    LET q == IndexOf(s, "\"", i) IN
    IF i > Len(s) THEN ""
    ELSE IF q = 0 THEN dropSpaces(SliceFrom(s, i), 1)
    ELSE dropSpaces(Slice(s, i, q), 1) \o "\"" \o stripInside(s, q + 1)

\* A literal that ends at the first quote, escaped or not.
stripToFirstQuote(s, i) ==
    LET m == IndexOf(s, "\"", i) IN
    IF i > Len(s) THEN ""
    ELSE IF m = 0 THEN SliceFrom(s, i)
    ELSE Slice(s, i, m + 1) \o stripOutside(s, m + 1)

\* inString = true and escaped = false at position i: every character is
\* kept; a backslash keeps the character after it too, a quote ends the
\* literal.
stripInside(s, i) ==
    LET m == FirstPos({j \in i .. Len(s) : Char(s, j) \in {"\\", "\""}}) IN
    IF i > Len(s) THEN ""
    ELSE IF m = 0 THEN SliceFrom(s, i)
    ELSE IF Char(s, m) = "\""
         THEN Slice(s, i, m + 1) \o stripOutside(s, m + 1)
    ELSE Slice(s, i, m + 2) \o stripInside(s, m + 2)

stripWhitespaceOutsideStrings(s) == stripOutside(s, 1)

(***************************************************************************)
(* insertImplicitFunctionCalls                                             *)
(***************************************************************************)

\* The symbolic constant names of the argument pattern, in its order.
ArgConstants == << "pi", "e", "tau", "phi", "i" >>

\* The first alternative of a list that occurs at p, as its index, or 0.
FirstAltAt(s, p, alts) ==
    FirstPos({k \in DOMAIN alts : StartsWithAt(s, p, alts[k])})

\* -?\d+(?:\.\d+)?(?:e[+-]?\d+)? at p: the position after the match, or 0.
NumberEnd(s, p) ==
    LET q == IF Char(s, p) = "-" THEN p + 1 ELSE p IN
    IF ~IsDigit(Char(s, q)) THEN 0
    ELSE LET d == RunEndIn(s, q, Digits)
             f == IF Char(s, d) = "." /\ IsDigit(Char(s, d + 1))
                  THEN RunEndIn(s, d + 1, Digits)
                  ELSE d
             g == IF Char(s, f + 1) \in {"+", "-"} THEN f + 2 ELSE f + 1
         IN IF Char(s, f) = "e" /\ IsDigit(Char(s, g))
            THEN RunEndIn(s, g, Digits)
            ELSE f

\* The argument pattern
\*   (?:-?\d+(?:\.\d+)?(?:e[+-]?\d+)?|pi|e|tau|phi|i|[a-zA-Z_]\w*)
\* at p: the position after the first alternative that matches, or 0.
ArgEnd(s, p) ==
    LET n == NumberEnd(s, p)
        c == FirstAltAt(s, p, ArgConstants)
    IN IF n # 0 THEN n
       ELSE IF c # 0 THEN p + Len(ArgConstants[c])
       ELSE IF IsIdentStart(Char(s, p)) THEN RunEndIn(s, p + 1, WordChars)
       ELSE 0

\* Whether the alternative `name` of \b(fnAlt)(?!\()(arg) matches at p.
FnAltMatches(s, p, name) ==
    /\ StartsWithAt(s, p, name)
    /\ Char(s, p + Len(name)) # "("
    /\ ArgEnd(s, p + Len(name)) # 0

\* The match of \b(fnAlt)(?!\()(arg) at p: the first name of sortedFns whose
\* alternative matches (the matcher backtracks into the next alternative
\* when the lookahead or the argument fails), or 0 when there is none.
FnMatchAt(s, p) ==
    IF ~WordBoundary(s, p) THEN 0
    ELSE FirstPos({k \in DOMAIN sortedFns : FnAltMatches(s, p, sortedFns[k])})

RECURSIVE fnCallPassFrom(_, _)
\* The scan of the global replace from position p.
fnCallPassFrom(s, p) ==
    LET m == FirstPos({i \in p .. Len(s) : FnMatchAt(s, i) # 0}) IN
    IF m = 0 THEN SliceFrom(s, p)
    ELSE LET fn == sortedFns[FnMatchAt(s, m)]
             a == m + Len(fn)
             e == ArgEnd(s, a)
         IN Slice(s, p, m) \o fn \o "(" \o Slice(s, a, e) \o ")"
                \o fnCallPassFrom(s, e)

\* out.replace(re, (_m, fn, a) => `${fn}(${a})`): one global replace.
fnCallPass(s) == fnCallPassFrom(s, 1)

RECURSIVE insertImplicitFunctionCalls(_)
\* while (true) { next = out.replace(...); if (next === out) break; ... }
insertImplicitFunctionCalls(expr) ==
    LET next == fnCallPass(expr) IN
    IF next = expr THEN expr ELSE insertImplicitFunctionCalls(next)

(***************************************************************************)
(* insertImplicitMultiplication                                            *)
(***************************************************************************)

\* (\d|\)|pi|e|tau|phi|i) at p, followed by "(": the length of the
\* alternative that matches, or 0.
Rule1Len(s, p) ==
    LET c == FirstPos({k \in DOMAIN ArgConstants :
                         /\ StartsWithAt(s, p, ArgConstants[k])
                         /\ Char(s, p + Len(ArgConstants[k])) = "("})
    IN IF (IsDigit(Char(s, p)) \/ Char(s, p) = ")") /\ Char(s, p + 1) = "("
       THEN 1
       ELSE IF c = 0 THEN 0 ELSE Len(ArgConstants[c])

\* (\))(?=(\d|pi|e|tau|phi|i|[a-zA-Z_])) at p: the length of the match, or 0.
Rule2Len(s, p) ==
    IF /\ Char(s, p) = ")"
       /\ \/ IsDigit(Char(s, p + 1))
          \/ FirstAltAt(s, p + 1, ArgConstants) # 0
          \/ IsIdentStart(Char(s, p + 1))
    THEN 1
    ELSE 0

\* (\d|\)|\bpi\b|\be\b|\btau\b|\bphi\b|\bi\b) at p, followed by [a-zA-Z_]:
\* the length of the alternative that matches, or 0.
Rule3Len(s, p) ==
    LET c == FirstPos({k \in DOMAIN ArgConstants :
                         /\ WordBoundary(s, p)
                         /\ StartsWithAt(s, p, ArgConstants[k])
                         /\ WordBoundary(s, p + Len(ArgConstants[k]))
                         /\ IsIdentStart(Char(s, p + Len(ArgConstants[k])))})
    IN IF (IsDigit(Char(s, p)) \/ Char(s, p) = ")") /\ IsIdentStart(Char(s, p + 1))
       THEN 1
       ELSE IF c = 0 THEN 0 ELSE Len(ArgConstants[c])

\* ([a-zA-Z_]\w*)(?=\() at p: the length of the identifier, or 0.  The
\* greedy \w* takes the whole run; giving characters back never helps, as
\* the character after a shorter match is a word character, not "(".
Rule4Len(s, p) ==
    IF ~IsIdentStart(Char(s, p)) THEN 0
    ELSE LET e == RunEndIn(s, p + 1, WordChars) IN
         IF Char(s, e) = "(" THEN e - p ELSE 0

RuleLen(rule, s, p) ==
    CASE rule = 1 -> Rule1Len(s, p)
      [] rule = 2 -> Rule2Len(s, p)
      [] rule = 3 -> Rule3Len(s, p)
      [] rule = 4 -> Rule4Len(s, p)

\* What a match is replaced by: "$1*" for the first three rules, and
\* (name) => functionNames.has(name) ? name : `${name}*` for the fourth.
RuleReplacement(rule, m) ==
    IF rule = 4 /\ m \in FunctionNameSet THEN m ELSE m \o "*"

RECURSIVE mulPassFrom(_, _, _)
\* The scan of the global replace of one rule from position p.
mulPassFrom(rule, s, p) ==
    LET m == FirstPos({i \in p .. Len(s) : RuleLen(rule, s, i) # 0}) IN
    IF m = 0 THEN SliceFrom(s, p)
    ELSE LET e == m + RuleLen(rule, s, m) IN
         Slice(s, p, m) \o RuleReplacement(rule, Slice(s, m, e))
             \o mulPassFrom(rule, s, e)

mulPass(rule, s) == mulPassFrom(rule, s, 1)

insertImplicitMultiplication(expr) ==
    mulPass(4, mulPass(3, mulPass(2, mulPass(1, expr))))

(***************************************************************************)
(* normalizeExpression                                                     *)
(***************************************************************************)

\* [a-zA-Z._()]: the class without the digits.
OperandLetters == Letters \cup {".", "_", "(", ")"}

\* [0-9a-zA-Z._()]
OperandChars == Letters \cup Digits \cup {".", "_", "(", ")"}

\* ([0-9a-zA-Z._()]+)marker([0-9a-zA-Z._()]+) at p: the position of the
\* marker, or 0.  The first group is greedy: of the markers of the run of
\* operand characters that starts at p, it ends at the last one that has an
\* operand character on each side; the second group takes the rest of the
\* run.
InfixMarkerAt(s, p, marker) ==
    LET e == RunEndIn(s, p, OperandChars) IN
    LastPos({k \in (p + 1) .. (e - Len(marker) - 1) : StartsWithAt(s, k, marker)})

RECURSIVE infixFrom(_, _, _, _)
\* The scan of out.replace(/(...)marker(...)/g, "fn($1,$2)") from p.
infixFrom(s, p, marker, fn) ==
    LET m == FirstPos({i \in p .. Len(s) : InfixMarkerAt(s, i, marker) # 0}) IN
    IF m = 0 THEN SliceFrom(s, p)
    ELSE LET k == InfixMarkerAt(s, m, marker)
             e == RunEndIn(s, m, OperandChars)
         IN Slice(s, p, m) \o fn \o "(" \o Slice(s, m, k) \o ","
                \o Slice(s, k + Len(marker), e) \o ")"
                \o infixFrom(s, e, marker, fn)

normalizeExpression(text) ==
    LET stripped == stripWhitespaceOutsideStrings(text)
        symbols == ReplaceAll(ReplaceAll(ReplaceAll(stripped, "×", "*"),
                                         "÷", "/"), "π", "pi")
        nCr == infixFrom(symbols, 1, "nCr", "combinations")
    IN infixFrom(nCr, 1, "nPr", "permutations")

(***************************************************************************)
(* latexToExpression: the balanced-group scanner                           *)
(***************************************************************************)

\* The "no match" result (null) of the scanners.
NoGroup == [ok |-> FALSE, content |-> "", end |-> 0]

Group(c, e) == [ok |-> TRUE, content |-> c, end |-> e]

RECURSIVE scanGroup(_, _, _, _, _, _)
\* for (let i = start; i < s.length; i++) { ... } of the two scanners, from
\* position i with `depth` counted so far.  Only the two delimiters change
\* the depth, so the scan moves from one delimiter to the next.
scanGroup(s, start, i, depth, open, close) ==
    LET m == FirstPos({j \in i .. Len(s) : Char(s, j) \in {open, close}})
        d == IF Char(s, m) = open THEN depth + 1 ELSE depth - 1
    IN IF m = 0 THEN NoGroup
       ELSE IF d = 0 THEN Group(Slice(s, start + 1, m), m + 1)
       ELSE scanGroup(s, start, m + 1, d, open, close)

\* A scan that stops at the first closer, whatever the depth.
parseToFirstCloser(s, start) ==
    LET m == IndexOf(s, "}", start)
    IN IF Char(s, start) # "{" \/ m = 0 THEN NoGroup
       ELSE Group(Slice(s, start + 1, m), m + 1)

parseBraceGroup(s, start) ==
    IF Char(s, start) # "{" THEN NoGroup
    ELSE scanGroup(s, start, start, 0, "{", "}")

parseBracketGroup(s, start) ==
    IF Char(s, start) # "[" THEN NoGroup
    ELSE scanGroup(s, start, start, 0, "[", "]")

(***************************************************************************)
(* latexToExpression: fractions and roots                                  *)
(***************************************************************************)

parseFracArg(str, start) ==
    LET i == RunEndIn(str, start, SpaceChars)
        ch == Char(str, i)
        j == RunEndIn(str, i + 1, Letters)
    IN IF ch = "" THEN NoGroup
       ELSE IF ch = "{" THEN parseBraceGroup(str, i)
       ELSE IF ch = "\\"
            THEN IF j = i + 1 THEN NoGroup ELSE Group(Slice(str, i, j), j)
       ELSE Group(ch, i + 1)

\* `((${num.content})/(${den.content}))`
fracReplacement(num, den) == "((" \o num \o ")/(" \o den \o "))"

\* A scan that resumes after the replacement, as that of the roots does.
fracRescanAfter(idx, replacement) == idx + Len(replacement)

\* Where the scan resumes after a fraction at idx was replaced:
\* idx = out.indexOf("\\frac", idx)
fracRescanFrom(idx, replacement) == idx

RECURSIVE fracLoop(_, _)
\* while (idx !== -1) { ... } of replaceAllFrac
fracLoop(out, idx) ==
    IF idx = 0 THEN out
    ELSE LET num == parseFracArg(out, idx + Len("\\frac"))
             den == parseFracArg(out, num.end)
         IN IF ~num.ok THEN fracLoop(out, IndexOf(out, "\\frac", idx + 1))
            ELSE IF ~den.ok THEN fracLoop(out, IndexOf(out, "\\frac", idx + 1))
            ELSE LET replacement == fracReplacement(num.content, den.content)
                     next == Slice(out, 1, idx) \o replacement
                                 \o SliceFrom(out, den.end)
                 IN fracLoop(next,
                             IndexOf(next, "\\frac",
                                     fracRescanFrom(idx, replacement)))

replaceAllFrac(s) == fracLoop(s, IndexOf(s, "\\frac", 1))

\* root ? `((${inner.content})^(1/(${root.content})))`
\*      : `sqrt(${inner.content})`
sqrtReplacement(hasRoot, inner, root) ==
    IF hasRoot THEN "((" \o inner \o ")^(1/(" \o root \o ")))"
    ELSE "sqrt(" \o inner \o ")"

\* idx = out.indexOf("\\sqrt", idx + replacement.length)
sqrtRescanFrom(idx, replacement) == idx + Len(replacement)

RECURSIVE sqrtLoop(_, _)
\* while (idx !== -1) { ... } of replaceAllSqrt
sqrtLoop(out, idx) ==
    IF idx = 0 THEN out
    ELSE LET pos == idx + Len("\\sqrt")
             hasRoot == Char(out, pos) = "["
             root == IF hasRoot THEN parseBracketGroup(out, pos) ELSE NoGroup
             inner == parseBraceGroup(out, IF hasRoot THEN root.end ELSE pos)
         IN IF hasRoot /\ ~root.ok
            THEN sqrtLoop(out, IndexOf(out, "\\sqrt", idx + 1))
            ELSE IF ~inner.ok
            THEN sqrtLoop(out, IndexOf(out, "\\sqrt", idx + 1))
            ELSE LET replacement ==
                         sqrtReplacement(hasRoot, inner.content, root.content)
                     next == Slice(out, 1, idx) \o replacement
                                 \o SliceFrom(out, inner.end)
                 IN sqrtLoop(next,
                             IndexOf(next, "\\sqrt",
                                     sqrtRescanFrom(idx, replacement)))

replaceAllSqrt(s) == sqrtLoop(s, IndexOf(s, "\\sqrt", 1))

(***************************************************************************)
(* latexToExpression: powers                                               *)
(***************************************************************************)

\* [0-9a-zA-Z._]
IdentChars == Letters \cup Digits \cup {".", "_"}

isIdentChar(ch) == ch \in IdentChars

RECURSIVE findMatchingOpen(_, _, _, _, _)
\* for (let j = closeIdx; j >= 0; j--) { ... } from position j with `depth`
\* counted so far, moving from one delimiter to the one before it; 0 is the
\* "not found" value -1.
findMatchingOpen(str, j, depth, openCh, closeCh) ==
    LET m == LastPos({k \in 1 .. j : Char(str, k) \in {openCh, closeCh}})
        d == IF Char(str, m) = closeCh THEN depth + 1 ELSE depth - 1
    IN IF m = 0 THEN 0
       ELSE IF d = 0 THEN m
       ELSE findMatchingOpen(str, m - 1, d, openCh, closeCh)

\* while (baseStart - 1 >= 0 && isIdentChar(out[baseStart - 1])) baseStart--
identStart(out, baseStart) ==
    LastPos({k \in 0 .. (baseStart - 1) : ~isIdentChar(Char(out, k))}) + 1

OpenOf(closeCh) ==
    IF closeCh = ")" THEN "(" ELSE IF closeCh = "]" THEN "[" ELSE "{"

\* i = baseStart + replacement.length
powerRescanFrom(baseStart, replacement) == baseStart + Len(replacement)

RECURSIVE powerLoop(_, _)
\* while (i < out.length) { ... } of replaceAllPowers
powerLoop(out, i) ==
    IF i > Len(out) THEN out
    ELSE LET caret == IndexOf(out, "^{", i)
             powerGroup == parseBraceGroup(out, caret + 1)
             last == Char(out, caret - 1)
             openIdx == findMatchingOpen(out, caret - 1, 0, OpenOf(last), last)
             baseStart == IF last \in {")", "]", "}"}
                          THEN openIdx
                          ELSE identStart(out, caret - 1)
             replacement == "(" \o Slice(out, baseStart, caret) \o ")^("
                                \o powerGroup.content \o ")"
         IN IF caret = 0 THEN out
            ELSE IF ~powerGroup.ok THEN powerLoop(out, caret + 2)
            ELSE IF caret <= 1 THEN powerLoop(out, powerGroup.end)
            ELSE IF last \in {")", "]", "}"} /\ openIdx = 0
                 THEN powerLoop(out, powerGroup.end)
            ELSE powerLoop(Slice(out, 1, baseStart) \o replacement
                               \o SliceFrom(out, powerGroup.end),
                           powerRescanFrom(baseStart, replacement))

replaceAllPowers(s) == powerLoop(s, 1)

(***************************************************************************)
(* latexToExpression: the replaceLoop conversions                          *)
(***************************************************************************)

\* The patterns of the bracketed constructs: prefix ([^excluded]+) suffix.
DelimPattern(kind) ==
    CASE kind = "abs" ->
           [prefix |-> "\\left|", excluded |-> {"|", "{", "}"},
            suffix |-> "\\right|"]
      [] kind = "floor" ->
           [prefix |-> "\\left\\lfloor", excluded |-> {"{", "}"},
            suffix |-> "\\right\\rfloor"]
      [] kind = "ceil" ->
           [prefix |-> "\\left\\lceil", excluded |-> {"{", "}"},
            suffix |-> "\\right\\rceil"]
      [] kind = "embed" ->
           [prefix |-> "\\embed{const}[", excluded |-> {"]"},
            suffix |-> "]"]

\* prefix ([^excluded]+) suffix at p.  The group is greedy: of the
\* positions where the suffix can follow a non-empty group, the last one.
DelimMatch(s, p, kind) ==
    LET pat == DelimPattern(kind)
        g == p + Len(pat.prefix)
        r == RunEndNotIn(s, g, pat.excluded)
        q == LastPos({x \in (g + 1) .. r : StartsWithAt(s, x, pat.suffix)})
    IN IF ~StartsWithAt(s, p, pat.prefix) \/ q = 0 THEN NoGroup
       ELSE Group(Slice(s, g, q), q + Len(pat.suffix))

\* \\operatorname\{([a-zA-Z][a-zA-Z0-9]*)\} at p
OperatorNameMatch(s, p) ==
    LET g == p + Len("\\operatorname{")
        r == RunEndIn(s, g, Letters \cup Digits)
    IN IF /\ StartsWithAt(s, p, "\\operatorname{")
          /\ IsLetter(Char(s, g))
          /\ Char(s, r) = "}"
       THEN Group(Slice(s, g, r), r + 1)
       ELSE NoGroup

\* The characters JSON.stringify writes as an escape, with the escape.
JsonEscapes ==
    [c \in {"\"", "\\", "\n", "\r", "\t", "\f"} |->
        CASE c = "\"" -> "\\\""
          [] c = "\\" -> "\\\\"
          [] c = "\n" -> "\\n"
          [] c = "\r" -> "\\r"
          [] c = "\t" -> "\\t"
          [] c = "\f" -> "\\f"]

RECURSIVE jsonEscape(_, _)
jsonEscape(k, p) ==
    LET m == FirstPos({i \in p .. Len(k) : Char(k, i) \in DOMAIN JsonEscapes}) IN
    IF m = 0 THEN SliceFrom(k, p)
    ELSE Slice(k, p, m) \o JsonEscapes[Char(k, m)] \o jsonEscape(k, m + 1)

\* JSON.stringify(key) for a string
JsonStringify(k) == "\"" \o jsonEscape(k, 1) \o "\""

\* The replacer of each conversion, applied to the captured group.
Replacement(kind, inner) ==
    CASE kind = "abs" -> "abs(" \o inner \o ")"
      [] kind = "floor" -> "floor(" \o inner \o ")"
      [] kind = "ceil" -> "ceil(" \o inner \o ")"
      [] kind = "operatorname" -> inner
      [] kind = "embed" -> "__const(" \o JsonStringify(inner) \o ")"

ConstructMatch(s, p, kind) ==
    IF kind = "operatorname" THEN OperatorNameMatch(s, p)
    ELSE DelimMatch(s, p, kind)

RECURSIVE replacePassFrom(_, _, _)
\* expr.replace(pattern, replacer): the scan of one global replace from p
replacePassFrom(s, p, kind) ==
    LET m == FirstPos({i \in p .. Len(s) : ConstructMatch(s, i, kind).ok}) IN
    IF m = 0 THEN SliceFrom(s, p)
    ELSE LET g == ConstructMatch(s, m, kind) IN
         Slice(s, p, m) \o Replacement(kind, g.content)
             \o replacePassFrom(s, g.end, kind)

RECURSIVE replaceLoop(_, _)
\* do { prev = expr; expr = expr.replace(...) } while (expr !== prev)
replaceLoop(expr, kind) ==
    LET next == replacePassFrom(expr, 1, kind) IN
    IF next = expr THEN expr ELSE replaceLoop(next, kind)

(***************************************************************************)
(* latexToExpression: literal symbol substitution                          *)
(***************************************************************************)

SymbolTable ==
    << <<"\\times", "*">>, <<"\\div", "/">>, <<"\\cdot", "*">>,
       <<"\\pi", "pi">>, <<"\\tau", "tau">>, <<"\\phi", "phi">>,
       <<"\\theta", "theta">>, <<"\\ln", "ln">>, <<"\\log", "log">>,
       <<"\\sin", "sin">>, <<"\\cos", "cos">>, <<"\\tan", "tan">>,
       <<"\\sec", "sec">>, <<"\\csc", "csc">>, <<"\\cot", "cot">>,
       <<"\\arcsin", "asin">>, <<"\\arccos", "acos">>,
       <<"\\arctan", "atan">>, <<"\\sinh", "sinh">>, <<"\\cosh", "cosh">>,
       <<"\\tanh", "tanh">>, <<"\\exp", "exp">>, <<"\\sum", "sum">>,
       <<"\\prod", "prod">>, <<"\\int", "int">> >>

RECURSIVE substituteSymbols(_, _)
\* The chain of .replace(/\\name/g, "name") calls, in its order.
substituteSymbols(expr, k) ==
    IF k > Len(SymbolTable) THEN expr
    ELSE LET next == ReplaceAll(expr, SymbolTable[k][1], SymbolTable[k][2]) IN
         IF next = expr THEN substituteSymbols(expr, k + 1)
         ELSE substituteSymbols(next, k + 1)

\* expr.replace(/[{}]/g, "")
stripBraces(expr) == ReplaceAll(ReplaceAll(expr, "{", ""), "}", "")

(***************************************************************************)
(* latexToExpression, toMathExpression                                     *)
(***************************************************************************)

unwrapDelimiters(latex) ==
    ReplaceAll(ReplaceAll(ReplaceAll(ReplaceAll(latex,
        "\\left(", "("), "\\right)", ")"), "\\left[", "("), "\\right]", ")")

convertConstructs(expr) ==
    LET abs == replaceLoop(expr, "abs")
        floor == replaceLoop(abs, "floor")
        ceil == replaceLoop(floor, "ceil")
        operatorname == replaceLoop(ceil, "operatorname")
        embed == replaceLoop(operatorname, "embed")
    IN InOrder(<<abs, floor, ceil, operatorname, embed>>)

latexToExpression(latex) ==
    LET unwrapped == unwrapDelimiters(latex)
        frac == replaceAllFrac(unwrapped)
        sqrt == replaceAllSqrt(frac)
        constructs == convertConstructs(sqrt)
        symbols == substituteSymbols(constructs, 1)
        powers == replaceAllPowers(symbols)
        noBraces == stripBraces(powers)
        finalExpr == stripWhitespaceOutsideStrings(noBraces)
    IN InOrder(<<unwrapped, frac, sqrt, constructs, symbols, powers,
                 noBraces, finalExpr>>)

toMathExpression(latex, text) ==
    LET base == IF latex # "" THEN latexToExpression(latex)
                ELSE normalizeExpression(text)
        normalized == normalizeExpression(base)
        withFnCalls == insertImplicitFunctionCalls(normalized)
        finalExpr == insertImplicitMultiplication(withFnCalls)
    IN InOrder(<<base, normalized, withFnCalls, finalExpr>>)

(***************************************************************************)
(* State                                                                   *)
(***************************************************************************)

VARIABLES
    arg,          \* the string one of the string rewriters is applied to
    fn,           \* the rewriter that was applied, "" before the call
    ret,          \* the string the rewriter returned
    loopOut,      \* a rewriter's loop: let out
    idx,          \* a rewriter's loop: let idx; a scanner: the parameter start
    passes,       \* a rewriter's loop: the iterations made so far
    loopPc,       \* a rewriter's loop: "loop" inside it, "returned" after
    latex,        \* toMathExpression: the markup of the input field
    text,         \* toMathExpression: the plain text of the input field
    pc,           \* toMathExpression: the statement reached
    base,         \* toMathExpression: const base
    normalized,   \* toMathExpression: const normalized
    withFnCalls,  \* toMathExpression: const withFnCalls
    finalExpr,    \* toMathExpression: const finalExpr
    expr,         \* latexToExpression: let expr
    canonical,    \* the canonical expressions returned so far, in order
    lines,        \* Home: the state lines; evaluateLines: the parameter lines
    angleUnit,    \* evaluateLines: the parameter angleUnit
    constantsMap, \* evaluateLines: the parameter constantsMap
    scope,        \* evaluateLines: const scope, the object given to mathjs
    lastAns,      \* evaluateLines: let lastAns
    out,          \* evaluateLines: const out
    line,         \* evaluateLines: the number of the line the loop is at
    linePc,       \* evaluateLines: the statement reached
    activeIndex,  \* Home: the state activeIndex, a position from 1
    undo,         \* Home: undoRef.current
    index,        \* updateLine: the parameter index while the call runs
    edits,        \* Home: the events handled so far
    beforeRemoval, \* Home: the sheet before the latest removeLine, while no
                  \* other event has followed it (history, not in the code)
    fields,       \* MathQuillField: each instance's effect and mount callback
    window        \* the window object: MathQuill and the registration flag

vars == << arg, fn, ret, loopOut, idx, passes, loopPc, latex, text, pc,
           base, normalized, withFnCalls, finalExpr, expr, canonical, lines, angleUnit, constantsMap,
           scope, lastAns, out, line, linePc, activeIndex, undo, index,
           edits, beforeRemoval, fields, window >>

editorVars == << activeIndex, undo, index, edits, beforeRemoval >>

fieldVars == << fields, window >>

resultVars == << angleUnit, constantsMap, scope, lastAns, out, line, linePc,
                 fieldVars >>

evaluationVars == << lines, resultVars, editorVars >>

loopVars == << loopOut, idx, passes, loopPc >>

rewriterVars == << arg, fn, ret, loopVars >>

pipelineVars == << latex, text, pc, base, normalized, withFnCalls,
                   finalExpr, expr, canonical >>

(***************************************************************************)
(* Inputs                                                                  *)
(***************************************************************************)

\* The longest input, in tokens, that is put together from a token list.
MaxTokens == 3

\* The most fractions, roots and powers nested and chained in one markup.
MaxOps == 2

RECURSIVE TokenStrings(_, _)
\* The strings of at most n tokens.
TokenStrings(tokens, n) ==
    IF n = 0 THEN {""}
    ELSE LET shorter == TokenStrings(tokens, n - 1)
         IN shorter \cup {s \o t : s \in shorter, t \in tokens}

\* Markup built from fractions, roots and powers, each form with the text
\* expected of it once every fraction (noFrac), every root (noSqrt) or every
\* power (noPow) in it is expanded and the other constructs are kept.
Atoms == {"2", "x"}

AtomForm(a) ==
    [latex |-> a, noFrac |-> a, noSqrt |-> a, noPow |-> a, atom |-> TRUE]

FracForm(n, d) ==
    [latex |-> "\\frac{" \o n.latex \o "}{" \o d.latex \o "}",
     noFrac |-> "((" \o n.noFrac \o ")/(" \o d.noFrac \o "))",
     noSqrt |-> "\\frac{" \o n.noSqrt \o "}{" \o d.noSqrt \o "}",
     noPow |-> "\\frac{" \o n.noPow \o "}{" \o d.noPow \o "}",
     atom |-> FALSE]

SqrtForm(x) ==
    [latex |-> "\\sqrt{" \o x.latex \o "}",
     noFrac |-> "\\sqrt{" \o x.noFrac \o "}",
     noSqrt |-> "sqrt(" \o x.noSqrt \o ")",
     noPow |-> "\\sqrt{" \o x.noPow \o "}",
     atom |-> FALSE]

RootForm(r, x) ==
    [latex |-> "\\sqrt[" \o r.latex \o "]{" \o x.latex \o "}",
     noFrac |-> "\\sqrt[" \o r.noFrac \o "]{" \o x.noFrac \o "}",
     noSqrt |-> "((" \o x.noSqrt \o ")^(1/(" \o r.noSqrt \o ")))",
     noPow |-> "\\sqrt[" \o r.noPow \o "]{" \o x.noPow \o "}",
     atom |-> FALSE]

\* A power of an atom: the base is the identifier or number before the ^.
PowForm(b, e) ==
    [latex |-> b.latex \o "^{" \o e.latex \o "}",
     noFrac |-> b.noFrac \o "^{" \o e.noFrac \o "}",
     noSqrt |-> b.noSqrt \o "^{" \o e.noSqrt \o "}",
     noPow |-> "(" \o b.noPow \o ")^(" \o e.noPow \o ")",
     atom |-> FALSE]

RECURSIVE FormsOf(_)
\* The forms with exactly k fractions, roots and powers.
FormsOf(k) ==
    IF k = 0 THEN {AtomForm(a) : a \in Atoms}
    ELSE LET Pairs == UNION {FormsOf(i) \X FormsOf(k - 1 - i) :
                             i \in 0 .. (k - 1)}
         IN {SqrtForm(x) : x \in FormsOf(k - 1)}
            \cup {FracForm(p[1], p[2]) : p \in Pairs}
            \cup {RootForm(p[1], p[2]) : p \in Pairs}
            \cup {PowForm(p[1], p[2]) : p \in {q \in Pairs : q[1].atom}}

Forms == UNION {FormsOf(k) : k \in 0 .. MaxOps}

LatexTokens == {"\\frac", "\\sqrt", "^", "{", "}", "[2]", "2", " "}

ExprTokens == {"2", "x", "sin", "log10", "pi", "(", ")", "e"}

\* name(args) for every recognized function name.
CallArgs == {"2", "x", "2,x"}

CallForms ==
    {name \o "(" \o a \o ")" : name \in FunctionNameSet, a \in CallArgs}

\* Single argument tokens: numbers with a sign, a decimal part and an
\* exponent suffix, constant names and bare identifiers.
ArgumentTokens == {"2", "-2", "2.5", "1e5", "pi", "tau", "x", "x2y"}

\* A function applied to one argument token without parentheses.
ImplicitCalls ==
    {name \o tok : name \in {"sin", "sqrt"}, tok \in ArgumentTokens}

\* The inputs the specification's own examples name.
Examples ==
    {"2^{3^{1+1}}", "\\sqrt{\\sqrt{4}}", "\\frac{\\frac{1}{2}}{3}",
     "2sin3", "sinh(2)", "log10(2)", "2(3)", "sin2"}

LatexInputs ==
    {f.latex : f \in Forms} \cup TokenStrings(LatexTokens, MaxTokens)

ExprInputs == CallForms \cup TokenStrings(ExprTokens, MaxTokens)

RewriterInputs == LatexInputs \cup ExprInputs \cup Examples

(***************************************************************************)
(* The string rewriters, one call each                                     *)
(***************************************************************************)

EditorIdle ==
    /\ activeIndex = 0 /\ undo = << >> /\ index = 0 /\ edits = 0
    /\ beforeRemoval = << >>

FieldIdle == fields = << >> /\ window = << >>

ResultIdle ==
    /\ angleUnit = "rad" /\ constantsMap = << >>
    /\ scope = << >> /\ lastAns = 0 /\ out = << >> /\ line = 0
    /\ linePc = "idle"
    /\ FieldIdle

EvaluationIdle == lines = << >> /\ ResultIdle /\ EditorIdle

PipelineIdle ==
    /\ latex = "" /\ text = "" /\ pc = "idle"
    /\ base = "" /\ normalized = "" /\ withFnCalls = "" /\ finalExpr = ""
    /\ expr = ""
    /\ canonical = << >>

LoopIdle == loopOut = "" /\ idx = 0 /\ passes = 0 /\ loopPc = "idle"

InitRewriter ==
    /\ arg \in RewriterInputs
    /\ fn = ""
    /\ ret = ""
    /\ LoopIdle
    /\ PipelineIdle
    /\ EvaluationIdle

Call(name, result) ==
    /\ fn = ""
    /\ fn' = name
    /\ ret' = result
    /\ UNCHANGED << arg, loopVars, pipelineVars, evaluationVars >>

CallInsertImplicitFunctionCalls ==
    Call("insertImplicitFunctionCalls", insertImplicitFunctionCalls(arg))

CallInsertImplicitMultiplication ==
    Call("insertImplicitMultiplication", insertImplicitMultiplication(arg))

CallReplaceAllFrac == Call("replaceAllFrac", replaceAllFrac(arg))

CallReplaceAllSqrt == Call("replaceAllSqrt", replaceAllSqrt(arg))

CallReplaceAllPowers == Call("replaceAllPowers", replaceAllPowers(arg))

NextRewriter ==
    \/ CallInsertImplicitFunctionCalls
    \/ CallInsertImplicitMultiplication
    \/ CallReplaceAllFrac
    \/ CallReplaceAllSqrt
    \/ CallReplaceAllPowers

SpecRewriter == InitRewriter /\ [][NextRewriter]_vars

(***************************************************************************)
(* The string rewriters: properties                                        *)
(***************************************************************************)

\* C3: insertImplicitFunctionCalls returns name(args) unchanged for every
\* recognized function name, the names that begin with a shorter recognized
\* name (sinh, asinh, log10, log2) included.
C3_CallsLeftUntouched ==
    (fn = "insertImplicitFunctionCalls" /\ arg \in CallForms) => ret = arg

\* C4: after the four rules of insertImplicitMultiplication an input that
\* begins with a recognized function name and the "(" of its argument list
\* still begins with name( and not with name*(.
C4_NoProductBeforeArguments ==
    fn = "insertImplicitMultiplication" =>
        \A name \in FunctionNameSet :
            StartsWithAt(arg, 1, name \o "(") =>
                StartsWithAt(ret, 1, name \o "(")

\* C5: replaceAllPowers rewrites every ^{...} with balanced braces and a base
\* to (base)^(exponent), a power inside another power's exponent included:
\* markup built from fractions, roots and powers comes back with every power
\* rewritten and no "^{" left.
C5_NestedPowersRewritten ==
    fn = "replaceAllPowers" =>
        \A f \in Forms :
            arg = f.latex => ret = f.noPow /\ ~Contains(ret, "^{")

\* C6: replaceAllSqrt expands every \sqrt{inner} and \sqrt[index]{inner}, a
\* root inside another root's radicand or index included: markup built from
\* fractions, roots and powers comes back with every root expanded and no
\* "\sqrt" left.
C6_NestedRootsExpanded ==
    fn = "replaceAllSqrt" =>
        \A f \in Forms :
            arg = f.latex => ret = f.noSqrt /\ ~Contains(ret, "\\sqrt")

\* Every \frac of s has a numerator and a denominator that parse.
AllFractionsParse(s) ==
    \A i \in 1 .. Len(s) :
        StartsWithAt(s, i, "\\frac") =>
            LET num == parseFracArg(s, i + Len("\\frac"))
            IN num.ok /\ parseFracArg(s, num.end).ok

\* C7: replaceAllFrac replaces every \frac whose numerator and denominator
\* parse by ((num)/(den)), the fractions nested in a numerator or denominator
\* included: markup built from fractions, roots and powers comes back with
\* every fraction expanded, and an input all of whose fractions parse comes
\* back without any "\frac".
C7_NestedFractionsExpanded ==
    fn = "replaceAllFrac" =>
        /\ \A f \in Forms : arg = f.latex => ret = f.noFrac
        /\ AllFractionsParse(arg) => ~Contains(ret, "\\frac")

\* A fraction nested in a numerator was expanded together with the outer one.
C7_Witness ==
    /\ fn = "replaceAllFrac"
    /\ arg = "\\frac{\\frac{2}{x}}{x}"
    /\ ret = "((((2)/(x)))/(x))"

(***************************************************************************)
(* The scanners, one call each                                             *)
(***************************************************************************)

\* The longest string of delimiters a scanner is applied to.
MaxGroupLen == 4

GroupTokens == {"{", "}", "[", "]", "a"}

OperandTokens == {"{", "}", "1", "a", "\\", "+", ")", " "}

ScannerInputs ==
    TokenStrings(GroupTokens, MaxGroupLen)
        \cup TokenStrings(OperandTokens, MaxTokens)

\* A scanner is applied to the string arg at the position idx, which is any
\* position of the string or the one after its end.
InitScanners ==
    /\ arg \in ScannerInputs
    /\ idx \in 1 .. (Len(arg) + 1)
    /\ fn = ""
    /\ ret = ""
    /\ loopOut = "" /\ passes = 0 /\ loopPc = "idle"
    /\ PipelineIdle
    /\ EvaluationIdle

Scan(name, result) ==
    /\ fn = ""
    /\ fn' = name
    /\ ret' = result
    /\ UNCHANGED << arg, loopVars, pipelineVars, evaluationVars >>

ScanBraceGroup == Scan("parseBraceGroup", parseBraceGroup(arg, idx))

ScanBracketGroup == Scan("parseBracketGroup", parseBracketGroup(arg, idx))

ScanFracArg == Scan("parseFracArg", parseFracArg(arg, idx))

NextScanners ==
    \/ ScanBraceGroup
    \/ ScanBracketGroup
    \/ ScanFracArg

SpecScanners == InitScanners /\ [][NextScanners]_vars

\* The openers of the span a .. b less its closers.
Depth(s, a, b, open, close) ==
    Cardinality({k \in a .. b : Char(s, k) = open})
        - Cardinality({k \in a .. b : Char(s, k) = close})

\* The closer that matches the opener at start: the first position where
\* the depth counted from start is back at zero, or 0 when there is none.
MatchingCloser(s, start, open, close) ==
    FirstPos({m \in start .. Len(s) : Depth(s, start, m, open, close) = 0})

GroupScanners ==
    {<< "parseBraceGroup", "{", "}" >>, << "parseBracketGroup", "[", "]" >>}

\* C19: applied at an opening delimiter, parseBraceGroup and
\* parseBracketGroup count the depth of their own delimiter type only and
\* return the content strictly between the opener and its matching closer,
\* with the position after that closer; they return null exactly when the
\* string ends before the depth is back at zero or there is no opener at
\* start; an empty group gives empty content and the end start + 2.
C19_ScannerFindsMatchingCloser ==
    \A sc \in GroupScanners :
        fn = sc[1] =>
            LET m == MatchingCloser(arg, idx, sc[2], sc[3])
                opener == Char(arg, idx) = sc[2]
            IN /\ (opener /\ m # 0) =>
                      /\ ret.ok
                      /\ Char(arg, m) = sc[3]
                      /\ ret.content = IF m = idx + 1 THEN ""
                                       ELSE SubSeq(arg, idx + 1, m - 1)
                      /\ ret.end = m + 1
               /\ ~ret.ok <=> (~opener \/ m = 0)
               /\ StartsWithAt(arg, idx, sc[2] \o sc[3]) =>
                      ret = Group("", idx + 2)

\* A brace group inside a bracket that closes too early, found at the
\* second position: the bracket inside it does not count.
C19_Witness ==
    /\ fn = "parseBraceGroup"
    /\ arg = "[{]}"
    /\ idx = 2
    /\ ret = Group("]", 5)

\* C20: parseFracArg accepts an operand that is no brace group only when it
\* is one bare digit or letter or one command token, a backslash followed
\* by letters; any other character in operand position, such as an
\* operator, a parenthesis or a closing brace, makes it return null.
C20_OperandIsAtomOrCommand ==
    fn = "parseFracArg" =>
        LET ch == Char(arg, RunEndIn(arg, idx, SpaceChars))
        IN ret.ok => \/ ch = "{"
                     \/ IsDigit(ch) /\ ret.content = ch
                     \/ IsLetter(ch) /\ ret.content = ch
                     \/ ch = "\\" /\ Len(ret.content) >= 2

(***************************************************************************)
(* stripWhitespaceOutsideStrings applied to text with quotes               *)
(***************************************************************************)

\* The longest text, in characters.
MaxStripLen == 5

StripTokens == {"\"", "\\", " ", "a"}

StripInputs == TokenStrings(StripTokens, MaxStripLen) \cup {"\"\t\"\ta"}

InitStrip ==
    /\ arg \in StripInputs
    /\ fn = ""
    /\ ret = ""
    /\ LoopIdle
    /\ PipelineIdle
    /\ EvaluationIdle

CallStripWhitespaceOutsideStrings ==
    Call("stripWhitespaceOutsideStrings", stripWhitespaceOutsideStrings(arg))

NextStrip == CallStripWhitespaceOutsideStrings

SpecStrip == InitStrip /\ [][NextStrip]_vars

RECURSIVE BackslashRun(_, _, _)
\* The backslashes in a row that end just before position j, counted no
\* further back than position lo.
BackslashRun(s, j, lo) ==
    IF j - 1 < lo \/ Char(s, j - 1) # "\\" THEN 0
    ELSE 1 + BackslashRun(s, j - 1, lo)

\* The quote that ends the literal opened at position o: the first one after
\* it that an even number of backslashes precedes; 0 when there is none.
ClosingQuote(s, o) ==
    FirstPos({j \in (o + 1) .. Len(s) :
                 /\ Char(s, j) = "\""
                 /\ BackslashRun(s, j, o + 1) % 2 = 0})

RECURSIVE LiteralPositions(_, _)
\* The positions from i on that belong to a literal, its quotes included;
\* position i is outside a literal.
LiteralPositions(s, i) ==
    LET o == IndexOf(s, "\"", i)
        c == ClosingQuote(s, o)
    IN IF i > Len(s) \/ o = 0 THEN {}
       ELSE IF c = 0 THEN o .. Len(s)
       ELSE (o .. c) \cup LiteralPositions(s, c + 1)

RECURSIVE Keep(_, _, _)
\* The characters of s from position i on whose positions are in kept.
Keep(s, i, kept) ==
    IF i > Len(s) THEN ""
    ELSE (IF i \in kept THEN Char(s, i) ELSE "") \o Keep(s, i + 1, kept)

\* C24: the output of stripWhitespaceOutsideStrings is its input with
\* exactly the whitespace outside double-quoted literals deleted; a literal
\* runs from its opening quote to the first quote after it that is not
\* escaped by a backslash, or to the end of the text.
C24_OnlyOutsideWhitespaceDeleted ==
    fn = "stripWhitespaceOutsideStrings" =>
        LET inside == LiteralPositions(arg, 1)
        IN ret = Keep(arg, 1, {i \in 1 .. Len(arg) :
                                  i \in inside \/ Char(arg, i) \notin SpaceChars})

\* Whitespace before and after a literal whose second quote is escaped:
\* the first space goes, the last one is inside the literal and stays.
C24_Witness ==
    /\ fn = "stripWhitespaceOutsideStrings"
    /\ arg = " \"\\\" "
    /\ ret = "\"\\\" "

(***************************************************************************)
(* The loops of the rewriters, one iteration a step                        *)
(***************************************************************************)

\* An occurrence that does not parse, with a well-formed one after it or
\* inside it.
FailingFirst ==
    {"\\frac{\\frac22", "\\frac\\frac{2}{2}", "\\sqrt[2\\sqrt{2}",
     "\\sqrt{\\sqrt{2}", "^{2}2^{2}", "2^{2^{2}", "^{2^{2}}"}

ScanTokens == {"\\frac", "\\sqrt", "^{", "{", "}", "{2}", "2", "\\"}

\* Markup, with balanced braces or not.
ScanInputs ==
    {f.latex : f \in Forms} \cup TokenStrings(ScanTokens, MaxTokens)
        \cup FailingFirst


Scanners == {"replaceAllFrac", "replaceAllSqrt", "replaceAllPowers"}

\* The marker each of the three scans for.
Marker(name) ==
    IF name = "replaceAllFrac" THEN "\\frac"
    ELSE IF name = "replaceAllSqrt" THEN "\\sqrt"
    ELSE "^{"

\* A scan that looks at the same occurrence again.
skipStay(p) == p

\* Where the search resumes after an occurrence at p that did not parse:
\* out.indexOf("\\frac", idx + 1), out.indexOf("\\sqrt", idx + 1)
skipFrom(p) == p + 1

InitLoops ==
    /\ arg = "" /\ fn = "" /\ ret = ""
    /\ LoopIdle
    /\ PipelineIdle
    /\ EvaluationIdle

\* One of the three is called with the string s:
\* let out = s; let idx = out.indexOf(...), or let i = 0
EnterLoop ==
    /\ loopPc = "idle"
    /\ \E name \in Scanners, s \in ScanInputs :
          /\ fn' = name
          /\ arg' = s
          /\ loopOut' = s
          /\ idx' = IF name = "replaceAllPowers" THEN 1
                    ELSE IndexOf(s, Marker(name), 1)
    /\ loopPc' = "loop"
    /\ UNCHANGED << ret, passes, pipelineVars, evaluationVars >>

\* An iteration of replaceAllFrac in which an operand does not parse.
FracSkip ==
    /\ loopPc = "loop" /\ fn = "replaceAllFrac" /\ idx # 0
    /\ \E num \in {parseFracArg(loopOut, idx + Len("\\frac"))} :
          \/ ~num.ok
          \/ \E den \in {parseFracArg(loopOut, num.end)} : ~den.ok
    /\ idx' = IndexOf(loopOut, "\\frac", skipFrom(idx))
    /\ passes' = passes + 1
    /\ UNCHANGED << arg, fn, ret, loopOut, loopPc, pipelineVars,
                    evaluationVars >>

\* An iteration of replaceAllFrac that replaces the fraction at idx.
FracSubstitute ==
    /\ loopPc = "loop" /\ fn = "replaceAllFrac" /\ idx # 0
    /\ \E num \in {parseFracArg(loopOut, idx + Len("\\frac"))} :
          /\ num.ok
          /\ \E den \in {parseFracArg(loopOut, num.end)} :
                /\ den.ok
                /\ \E replacement \in
                          {fracReplacement(num.content, den.content)} :
                      /\ loopOut' = Slice(loopOut, 1, idx) \o replacement
                                        \o SliceFrom(loopOut, den.end)
                      /\ idx' = IndexOf(loopOut', "\\frac",
                                        fracRescanFrom(idx, replacement))
    /\ passes' = passes + 1
    /\ UNCHANGED << arg, fn, ret, loopPc, pipelineVars, evaluationVars >>

\* The optional index of the root whose marker ends before pos: the
\* bracket group at pos when there is a bracket, and where the radicand
\* starts.
\*   let root = null; if (out[pos] === "[") { root = parseBracketGroup(...);
\*   ...; pos = root.end }
sqrtRoot(s, pos) ==
    IF Char(s, pos) = "["
    THEN [given |-> TRUE] @@ parseBracketGroup(s, pos)
    ELSE [given |-> FALSE, ok |-> FALSE, content |-> "", end |-> pos]

\* An iteration of replaceAllSqrt in which the index or the radicand does
\* not parse.
SqrtSkip ==
    /\ loopPc = "loop" /\ fn = "replaceAllSqrt" /\ idx # 0
    /\ \E root \in {sqrtRoot(loopOut, idx + Len("\\sqrt"))} :
          \/ root.given /\ ~root.ok
          \/ \E inner \in {parseBraceGroup(loopOut, root.end)} : ~inner.ok
    /\ idx' = IndexOf(loopOut, "\\sqrt", skipFrom(idx))
    /\ passes' = passes + 1
    /\ UNCHANGED << arg, fn, ret, loopOut, loopPc, pipelineVars,
                    evaluationVars >>

\* An iteration of replaceAllSqrt that replaces the root at idx.
SqrtSubstitute ==
    /\ loopPc = "loop" /\ fn = "replaceAllSqrt" /\ idx # 0
    /\ \E root \in {sqrtRoot(loopOut, idx + Len("\\sqrt"))} :
          /\ root.given => root.ok
          /\ \E inner \in {parseBraceGroup(loopOut, root.end)} :
                /\ inner.ok
                /\ \E replacement \in
                          {sqrtReplacement(root.given, inner.content,
                                           root.content)} :
                      /\ loopOut' = Slice(loopOut, 1, idx) \o replacement
                                        \o SliceFrom(loopOut, inner.end)
                      /\ idx' = IndexOf(loopOut', "\\sqrt",
                                        sqrtRescanFrom(idx, replacement))
    /\ passes' = passes + 1
    /\ UNCHANGED << arg, fn, ret, loopPc, pipelineVars, evaluationVars >>

\* Whether the power at `caret` has no base to take: the marker opens the
\* string, or the base closes a group that was never opened.
NoPowerBase(caret) ==
    LET last == Char(loopOut, caret - 1)
    IN \/ caret <= 1
       \/ /\ last \in {")", "]", "}"}
          /\ findMatchingOpen(loopOut, caret - 1, 0, OpenOf(last), last) = 0

\* Where the base of the power at `caret` starts: at the opener of the
\* group that ends before the caret, or at the start of the identifier or
\* number there.
powerBaseStart(s, caret) ==
    LET last == Char(s, caret - 1)
    IN IF last \in {")", "]", "}"}
       THEN findMatchingOpen(s, caret - 1, 0, OpenOf(last), last)
       ELSE identStart(s, caret - 1)

\* An iteration of replaceAllPowers that ends in `continue`.
PowerSkip ==
    /\ loopPc = "loop" /\ fn = "replaceAllPowers" /\ idx <= Len(loopOut)
    /\ \E caret \in {IndexOf(loopOut, "^{", idx)} :
          /\ caret # 0
          /\ \E powerGroup \in {parseBraceGroup(loopOut, caret + 1)} :
                \/ ~powerGroup.ok /\ idx' = caret + 2
                \/ /\ powerGroup.ok /\ NoPowerBase(caret)
                   /\ idx' = powerGroup.end
    /\ passes' = passes + 1
    /\ UNCHANGED << arg, fn, ret, loopOut, loopPc, pipelineVars,
                    evaluationVars >>

\* An iteration of replaceAllPowers that replaces the power at the caret.
PowerSubstitute ==
    /\ loopPc = "loop" /\ fn = "replaceAllPowers" /\ idx <= Len(loopOut)
    /\ \E caret \in {IndexOf(loopOut, "^{", idx)} :
          /\ caret # 0
          /\ ~NoPowerBase(caret)
          /\ \E powerGroup \in {parseBraceGroup(loopOut, caret + 1)},
                baseStart \in {powerBaseStart(loopOut, caret)} :
                /\ powerGroup.ok
                /\ \E replacement \in
                          {"(" \o Slice(loopOut, baseStart, caret) \o ")^("
                               \o powerGroup.content \o ")"} :
                      /\ loopOut' = Slice(loopOut, 1, baseStart)
                                        \o replacement
                                        \o SliceFrom(loopOut, powerGroup.end)
                      /\ idx' = powerRescanFrom(baseStart, replacement)
    /\ passes' = passes + 1
    /\ UNCHANGED << arg, fn, ret, loopPc, pipelineVars, evaluationVars >>

\* The loop ends: return out
LoopReturn ==
    /\ loopPc = "loop"
    /\ \/ fn \in {"replaceAllFrac", "replaceAllSqrt"} /\ idx = 0
       \/ /\ fn = "replaceAllPowers"
          /\ idx > Len(loopOut) \/ IndexOf(loopOut, "^{", idx) = 0
    /\ ret' = loopOut
    /\ loopPc' = "returned"
    /\ UNCHANGED << arg, fn, loopOut, idx, passes, pipelineVars,
                    evaluationVars >>

NextLoops ==
    \/ EnterLoop
    \/ FracSkip
    \/ FracSubstitute
    \/ SqrtSkip
    \/ SqrtSubstitute
    \/ PowerSkip
    \/ PowerSubstitute
    \/ LoopReturn

SpecLoops == InitLoops /\ [][NextLoops]_vars /\ WF_vars(NextLoops)

\* The iterations compute what the functions return.
LoopsReturnTheFunctions ==
    loopPc = "returned" =>
        ret = IF fn = "replaceAllFrac" THEN replaceAllFrac(arg)
              ELSE IF fn = "replaceAllSqrt" THEN replaceAllSqrt(arg)
              ELSE replaceAllPowers(arg)

\* The number of places of s at which pat occurs.
CountOf(s, pat) ==
    Cardinality({p \in 1 .. Len(s) : StartsWithAt(s, p, pat)})

\* The part of s from position p on that the scan has not passed, nothing
\* when the search found no further marker.
Unscanned(s, p) == IF p = 0 \/ p > Len(s) THEN 0 ELSE Len(s) - p + 1

Substitute == FracSubstitute \/ SqrtSubstitute \/ PowerSubstitute

Skip == FracSkip \/ SqrtSkip \/ PowerSkip

MovesForward == idx' = 0 \/ idx' > idx

\* C12 as stated: the three loops end on every input, each substitution
\* strictly reduces the number of trigger markers in the string and each
\* failed match moves the scan position strictly forward.
C12_SubstitutionsReduceMarkers ==
    /\ [][Substitute =>
            CountOf(loopOut', Marker(fn)) < CountOf(loopOut, Marker(fn))]_vars
    /\ [][Skip => MovesForward]_vars
    /\ loopPc = "loop" ~> loopPc = "returned"

\* C12: the three loops end on every input.  A substitution of
\* replaceAllFrac or replaceAllPowers strictly reduces the number of trigger
\* markers; a substitution of replaceAllSqrt never increases it and leaves
\* strictly less of the string to scan; a failed match moves the scan
\* position strictly forward.
C12_LoopsTerminate ==
    /\ [][(FracSubstitute \/ PowerSubstitute) =>
            CountOf(loopOut', Marker(fn)) < CountOf(loopOut, Marker(fn))]_vars
    /\ [][SqrtSubstitute =>
            /\ CountOf(loopOut', "\\sqrt") <= CountOf(loopOut, "\\sqrt")
            /\ Unscanned(loopOut', idx') < Unscanned(loopOut, idx)]_vars
    /\ [][Skip => MovesForward]_vars
    /\ loopPc = "loop" ~> loopPc = "returned"

\* Whether the occurrence of the marker of `name` at position p of s has
\* operands that parse, and for a power a base.
WellFormedAt(name, s, p) ==
    IF name = "replaceAllFrac"
    THEN LET num == parseFracArg(s, p + Len("\\frac"))
         IN num.ok /\ parseFracArg(s, num.end).ok
    ELSE IF name = "replaceAllSqrt"
    THEN LET root == sqrtRoot(s, p + Len("\\sqrt"))
         IN (root.given => root.ok) /\ parseBraceGroup(s, root.end).ok
    ELSE /\ parseBraceGroup(s, p + 1).ok
         /\ p > 1
         /\ Char(s, p - 1) \in {")", "]", "}"} =>
                findMatchingOpen(s, p - 1, 0, OpenOf(Char(s, p - 1)),
                                 Char(s, p - 1)) # 0

\* The occurrence an iteration looks at: the one at idx, or for
\* replaceAllPowers the first one from i on.
Occurrence ==
    IF fn = "replaceAllPowers" THEN IndexOf(loopOut, "^{", idx) ELSE idx

\* C21: an iteration in which an operand of the occurrence does not parse
\* leaves the string as it is and does not end the loop, and the loop goes
\* on to look at every well-formed occurrence of the marker after the one
\* that failed: none of them lies before the place the scan resumes at.
C21_FailureSkipsOnlyItself ==
    [][Skip =>
          /\ loopOut' = loopOut
          /\ loopPc' = "loop"
          /\ \A p \in (Occurrence + 1) .. Len(loopOut) :
                 (/\ StartsWithAt(loopOut, p, Marker(fn))
                  /\ WellFormedAt(fn, loopOut, p))
                     => Occurrence' # 0 /\ Occurrence' <= p]_vars

\* A backslash before a root: the substitution leaves one marker where there
\* was one, and the loop ends.
C12_Witness ==
    /\ loopPc = "returned" /\ fn = "replaceAllSqrt"
    /\ arg = "\\\\sqrt{2}" /\ ret = "\\sqrt(2)" /\ passes = 1

(***************************************************************************)
(* The loop of insertImplicitFunctionCalls, one replace pass a step        *)
(***************************************************************************)

\* The pairs of recognized names of which the first is the start of the
\* second: sin and sinh, asin and asinh, log and log10, ...
PrefixPairs ==
    {pair \in FunctionNameSet \X FunctionNameSet :
        pair[1] # pair[2] /\ StartsWithAt(pair[2], 1, pair[1])}

\* What follows the longer name: an argument token, nothing, an operator.
FollowingTokens == ArgumentTokens \cup {"", "+2"}

PrefixedCalls ==
    {pair[2] \o tok : pair \in PrefixPairs, tok \in FollowingTokens}

\* The most function names written back to back.
MaxDepth == 3

ChainNames == {"sin", "sqrt", "ln", "exp"}

RECURSIVE Chains(_)
\* The lists of 1 .. n names.
Chains(n) ==
    IF n = 0 THEN {}
    ELSE {<< name >> : name \in ChainNames}
             \cup {<< name >> \o c : name \in ChainNames, c \in Chains(n - 1)}

RECURSIVE BackToBack(_, _)
\* The names written back to back before the token: sinsin1
BackToBack(names, tok) ==
    IF names = << >> THEN tok
    ELSE Head(names) \o BackToBack(Tail(names), tok)

RECURSIVE NestedCalls(_, _)
\* The names as explicit calls, one inside the other: sin(sin(1))
NestedCalls(names, tok) ==
    IF names = << >> THEN tok
    ELSE Head(names) \o "(" \o NestedCalls(Tail(names), tok) \o ")"

ChainTokens == {"1", "x"}

ChainedCalls ==
    {BackToBack(c, tok) : c \in Chains(MaxDepth), tok \in ChainTokens}

\* Expressions, with functions applied to functions without parentheses.
CallInputs ==
    TokenStrings(ExprTokens, MaxTokens) \cup ImplicitCalls
        \cup PrefixedCalls \cup ChainedCalls
        \cup {"lnlnlnx", "sincosx", "sinh(2)", "2sin3"}

\* insertImplicitFunctionCalls is called with the string s: let out = expr
EnterFnCalls ==
    /\ loopPc = "idle"
    /\ \E s \in CallInputs : arg' = s /\ loopOut' = s
    /\ fn' = "insertImplicitFunctionCalls"
    /\ loopPc' = "loop"
    /\ UNCHANGED << ret, idx, passes, pipelineVars, evaluationVars >>

\* A loop that is never left.
neverUnchanged(next, current) == FALSE

\* if (next === out) break
unchanged(next, current) == next = current

\* A pass that replaces: out = next
FnCallsReplace ==
    /\ loopPc = "loop" /\ fn = "insertImplicitFunctionCalls"
    /\ \E next \in {fnCallPass(loopOut)} :
          /\ ~unchanged(next, loopOut)
          /\ loopOut' = next
    /\ passes' = passes + 1
    /\ UNCHANGED << arg, fn, ret, idx, loopPc, pipelineVars,
                    evaluationVars >>

\* The pass that finds nothing to replace: break; return out
FnCallsReturn ==
    /\ loopPc = "loop" /\ fn = "insertImplicitFunctionCalls"
    /\ unchanged(fnCallPass(loopOut), loopOut)
    /\ passes' = passes + 1
    /\ ret' = loopOut
    /\ loopPc' = "returned"
    /\ UNCHANGED << arg, fn, loopOut, idx, pipelineVars, evaluationVars >>

NextFnCalls ==
    \/ EnterFnCalls
    \/ FnCallsReplace
    \/ FnCallsReturn

SpecFnCalls == InitLoops /\ [][NextFnCalls]_vars

\* The passes compute what the function returns.
FnCallsReturnsTheFunction ==
    loopPc = "returned" => ret = insertImplicitFunctionCalls(arg)

\* C13 as stated: the loop of insertImplicitFunctionCalls never makes more
\* than 2 * (input length) replace passes, so it ends on every input.
C13_TwiceLengthPasses == passes <= 2 * Len(arg)

\* C13: the loop of insertImplicitFunctionCalls never makes more than
\* 2 * (input length) replace passes, or more than the one pass that finds
\* nothing to replace when the input is the empty string; so it ends on
\* every input.
C13_PassesBounded == passes <= Max(1, 2 * Len(arg))

\* Three functions applied one to the next take three passes that replace
\* and one that does not.
C13_Witness ==
    /\ loopPc = "returned" /\ fn = "insertImplicitFunctionCalls"
    /\ arg = "lnlnlnx" /\ ret = "ln(ln(ln(x)))" /\ passes = 4

\* C22: of two recognized names of which one is the start of the other, the
\* longer one is applied when it is not followed by "(": the longer name
\* before an argument token becomes longer(token), and whatever follows the
\* longer name the result does not apply the shorter one, so sinh2 becomes
\* sinh(2) and never sin(h2).
C22_LongerNameApplied ==
    \A pair \in PrefixPairs, tok \in FollowingTokens :
        (/\ loopPc = "returned" /\ fn = "insertImplicitFunctionCalls"
         /\ arg = pair[2] \o tok)
            => /\ ~StartsWithAt(ret, 1, pair[1] \o "(")
               /\ tok \in ArgumentTokens =>
                      ret = pair[2] \o "(" \o tok \o ")"

\* C23: n recognized function names written back to back before one
\* argument token come back as n explicit calls, one inside the other, and
\* the returned string has no recognized name at a word boundary that is
\* directly followed by an argument token.
C23_ChainsFullyExpanded ==
    (loopPc = "returned" /\ fn = "insertImplicitFunctionCalls") =>
        /\ \A c \in Chains(MaxDepth), tok \in ChainTokens :
               arg = BackToBack(c, tok) => ret = NestedCalls(c, tok)
        /\ \A p \in 1 .. Len(ret) : FnMatchAt(ret, p) = 0

(***************************************************************************)
(* toMathExpression, statement by statement                                *)
(***************************************************************************)

\* The most times an expression is passed through the pipeline.
MaxPasses == 2

isValidConstEmbedKey(key) ==
    /\ \E i \in 1 .. Len(key) : Char(key, i) \notin SpaceChars
    /\ ~Contains(key, "]")
    /\ ~Contains(key, "\n")
    /\ ~Contains(key, "\r")

\* Keys of constants, some of them not accepted as embed keys.
CandidateKeys ==
    {"c", "g_0", "speed of light", "a\"b", "2x", "sin2", " ", "a]b"}

\* The markup of a constant badge: \embed{const}[key]
EmbedMarkup(key) == "\\embed{const}[" \o key \o "]"

\* The call a constant badge is compiled to.
ConstCall(key) == "__const(" \o JsonStringify(key) \o ")"

\* A coefficient directly before a function applied without parentheses.
CoefficientCalls == {"2" \o name \o "3" : name \in FunctionNameSet}

PipelineLatex ==
    {f.latex : f \in Forms}
        \cup {EmbedMarkup(k) : k \in CandidateKeys}
        \cup {"2\\embed{const}[c]", "2^{3^{1+1}}", "\\sqrt{\\sqrt{4}}",
              "\\frac{\\frac{1}{2}}{3}", "2\\sin3", "2\\times3"}

PipelineText ==
    TokenStrings(ExprTokens, MaxTokens) \cup CallForms
        \cup CoefficientCalls \cup ImplicitCalls
        \cup {"2(3)", "sin2", "sqrt9", "5nCr2", "2 × 3"}

RewriterIdle == arg = "" /\ fn = "idle" /\ ret = "" /\ LoopIdle

InitPipeline ==
    /\ \/ latex \in PipelineLatex /\ text = ""
       \/ latex = "" /\ text \in PipelineText
    /\ pc = "base"
    /\ base = "" /\ normalized = "" /\ withFnCalls = "" /\ finalExpr = ""
    /\ expr = ""
    /\ canonical = << >>
    /\ RewriterIdle
    /\ EvaluationIdle

\* const base = latex ? latexToExpression(latex) : normalizeExpression(text):
\* the call of latexToExpression, or the whole statement for a field
\* without markup.
ComputeBase ==
    /\ pc = "base"
    /\ IF latex # ""
       THEN expr' = latex /\ pc' = "unwrap" /\ base' = base
       ELSE base' = normalizeExpression(text) /\ pc' = "normalized"
                /\ expr' = expr
    /\ UNCHANGED << latex, text, normalized, withFnCalls, finalExpr,
                    canonical, rewriterVars, evaluationVars >>

\* One statement of latexToExpression: expr = result, then on to `next`.
Statement(at, result, next) ==
    /\ pc = at
    /\ expr' = result
    /\ pc' = next
    /\ UNCHANGED << latex, text, base, normalized, withFnCalls, finalExpr,
                    canonical, rewriterVars, evaluationVars >>

\* .replace(/\\left\(/g, "(") ... .replace(/\\right\]/g, ")")
UnwrapDelimiters == Statement("unwrap", unwrapDelimiters(expr), "frac")

\* expr = replaceAllFrac(expr)
ReplaceAllFrac == Statement("frac", replaceAllFrac(expr), "sqrt")

\* expr = replaceAllSqrt(expr)
ReplaceAllSqrt == Statement("sqrt", replaceAllSqrt(expr), "abs")

ReplaceAbs == Statement("abs", replaceLoop(expr, "abs"), "floor")

ReplaceFloor == Statement("floor", replaceLoop(expr, "floor"), "ceil")

ReplaceCeil == Statement("ceil", replaceLoop(expr, "ceil"), "operatorname")

ReplaceOperatorName ==
    Statement("operatorname", replaceLoop(expr, "operatorname"), "embed")

ReplaceEmbed == Statement("embed", replaceLoop(expr, "embed"), "symbols")

\* expr = expr.replace(/\\times/g, "*") ... .replace(/\\int/g, "int")
SubstituteSymbols ==
    Statement("symbols", substituteSymbols(expr, 1), "powers")

\* expr = replaceAllPowers(expr)
ReplaceAllPowers == Statement("powers", replaceAllPowers(expr), "braces")

\* expr = expr.replace(/[{}]/g, "")
StripBraces == Statement("braces", stripBraces(expr), "strip")

\* const finalExpr = stripWhitespaceOutsideStrings(expr); return finalExpr
ReturnBase ==
    /\ pc = "strip"
    /\ base' = stripWhitespaceOutsideStrings(expr)
    /\ pc' = "normalized"
    /\ UNCHANGED << latex, text, normalized, withFnCalls, finalExpr, expr,
                    canonical, rewriterVars, evaluationVars >>

\* const normalized = normalizeExpression(base)
Normalize ==
    /\ pc = "normalized"
    /\ normalized' = normalizeExpression(base)
    /\ pc' = "withFnCalls"
    /\ UNCHANGED << latex, text, base, withFnCalls, finalExpr, expr,
                    canonical, rewriterVars, evaluationVars >>

\* const withFnCalls = insertImplicitFunctionCalls(normalized)
InsertFunctionCalls ==
    /\ pc = "withFnCalls"
    /\ withFnCalls' = insertImplicitFunctionCalls(normalized)
    /\ pc' = "finalExpr"
    /\ UNCHANGED << latex, text, base, normalized, finalExpr, expr,
                    canonical, rewriterVars, evaluationVars >>

\* const finalExpr = insertImplicitMultiplication(withFnCalls)
InsertMultiplication ==
    /\ pc = "finalExpr"
    /\ finalExpr' = insertImplicitMultiplication(withFnCalls)
    /\ pc' = "return"
    /\ UNCHANGED << latex, text, base, normalized, withFnCalls, expr,
                    canonical, rewriterVars, evaluationVars >>

\* return finalExpr
Return ==
    /\ pc = "return"
    /\ canonical' = Append(canonical, finalExpr)
    /\ pc' = "done"
    /\ UNCHANGED << latex, text, base, normalized, withFnCalls, finalExpr,
                    expr, rewriterVars, evaluationVars >>

\* The canonical expression is passed through the pipeline again, as the
\* plain text of a field without markup.
FeedBack ==
    /\ pc = "done"
    /\ Len(canonical) < MaxPasses
    /\ latex' = ""
    /\ text' = finalExpr
    /\ pc' = "base"
    /\ base' = "" /\ normalized' = "" /\ withFnCalls' = "" /\ finalExpr' = ""
    /\ expr' = ""
    /\ UNCHANGED << canonical, rewriterVars, evaluationVars >>

NextPipeline ==
    \/ ComputeBase
    \/ UnwrapDelimiters
    \/ ReplaceAllFrac
    \/ ReplaceAllSqrt
    \/ ReplaceAbs
    \/ ReplaceFloor
    \/ ReplaceCeil
    \/ ReplaceOperatorName
    \/ ReplaceEmbed
    \/ SubstituteSymbols
    \/ ReplaceAllPowers
    \/ StripBraces
    \/ ReturnBase
    \/ Normalize
    \/ InsertFunctionCalls
    \/ InsertMultiplication
    \/ Return
    \/ FeedBack

SpecPipeline == InitPipeline /\ [][NextPipeline]_vars

\* The statements compute what the function returns.
PipelineReturnsToMathExpression ==
    pc = "done" => finalExpr = toMathExpression(latex, text)

\* C8: for every key accepted as an embed key, the canonical expression of
\* the badge \embed{const}[key] is the call __const("...") whose literal is
\* the JSON text of the key: no pass alters a character inside the literal.
C8_ConstLiteralKept ==
    \A k \in CandidateKeys :
        (pc = "done" /\ isValidConstEmbedKey(k) /\ latex = EmbedMarkup(k))
            => finalExpr = ConstCall(k)

\* C9: passing a canonical expression through the pipeline again returns
\* the same string.
C9_PipelineIdempotent ==
    \A n \in 2 .. Len(canonical) : canonical[n] = canonical[n - 1]

\* C10: a coefficient directly before a function applied without parentheses
\* comes out as the coefficient times the call: 2sin3 becomes 2*sin(3).
C10_CoefficientTimesCall ==
    \A name \in FunctionNameSet :
        (pc = "done" /\ latex = "" /\ text = "2" \o name \o "3")
            => finalExpr = "2*" \o name \o "(3)"

\* C11: the argument token that insertImplicitFunctionCalls wraps in
\* parentheses is the same token after insertImplicitMultiplication: no *
\* is inserted inside it.
C11_ArgumentTokenKept ==
    \A name \in {"sin", "sqrt"}, tok \in ArgumentTokens :
        (/\ pc = "done" /\ latex = "" /\ text = name \o tok
         /\ withFnCalls = name \o "(" \o tok \o ")")
            => finalExpr = withFnCalls

\* The shorthand inputs, each with the canonical expression expected of it.
Shorthands ==
    {<< "2(3)", "2*(3)" >>, << "sqrt9", "sqrt(9)" >>,
     << "5nCr2", "combinations(5,2)" >>}

\* C18: the shorthand inputs come out as the expressions that denote their
\* values: 2(3) as 2*(3), sqrt9 as sqrt(9) and 5nCr2 as combinations(5,2),
\* with no other * and no other parenthesis inserted.
C18_ShorthandsCanonical ==
    \A sh \in Shorthands :
        (pc = "done" /\ latex = "" /\ text = sh[1]) => finalExpr = sh[2]

\* 5nCr2 has been through the pipeline once.
C18_Witness ==
    /\ pc = "done"
    /\ Len(canonical) = 1
    /\ latex = ""
    /\ text = "5nCr2"
    /\ base = "combinations(5,2)"
    /\ finalExpr = "combinations(5,2)"

(***************************************************************************)
(* The constant badge: insertConstantBadge and the embed "const"           *)
(***************************************************************************)

\* The longest key, in characters.
MaxKeyLen == 3

KeyChars == {"a", "1", "_", " ", "-", "]"}

BadgeKeys == TokenStrings(KeyChars, MaxKeyLen)

\* CONST_ID_RE = /^[a-zA-Z_][a-zA-Z0-9_]*$/
\* No key of the model has a line terminator, so $ is the end of the key.
CONST_ID_RE(key) ==
    /\ IsIdentStart(Char(key, 1))
    /\ \A i \in 2 .. Len(key) : IsWordChar(Char(key, i))

\* The function registered for the embed "const", applied to the id between
\* the brackets: const key = typeof id === "string" && CONST_ID_RE.test(id)
\* ? id : "const"; latex: () => `\\embed{const}[${key}]`
constEmbedLatex(id) == EmbedMarkup(IF CONST_ID_RE(id) THEN id ELSE "const")

InitBadge ==
    /\ arg \in BadgeKeys
    /\ fn = ""
    /\ ret = ""
    /\ LoopIdle
    /\ PipelineIdle
    /\ EvaluationIdle

\* insertConstantBadge(key) with an empty active field: nothing is written
\* for a key that is not accepted; otherwise the field parses
\* \embed{const}[key], which calls the registered function with the key, and
\* ret is the markup the field then reports, mf.latex().
InsertConstantBadge ==
    Call("insertConstantBadge",
         IF isValidConstEmbedKey(arg) THEN constEmbedLatex(arg) ELSE "")

NextBadge == InsertConstantBadge

SpecBadge == InitBadge /\ [][NextBadge]_vars

\* C26: every key insertConstantBadge accepts is serialized by the embed
\* "const" as \embed{const}[key] with that same key.
C26_AcceptedKeySerializedUnchanged ==
    (fn = "insertConstantBadge" /\ isValidConstEmbedKey(arg))
        => ret = EmbedMarkup(arg)

(***************************************************************************)
(* evaluateLines: values, the scope and the call of math.evaluate          *)
(*                                                                         *)
(* The numbers of the model are the integers.  math.evaluate belongs to    *)
(* the mathjs library: it is modelled on the expressions of LineTexts, by  *)
(* the syntax tree of each and the evaluation of that tree against the     *)
(* scope object, which an assignment writes to at the moment it is         *)
(* evaluated.                                                              *)
(***************************************************************************)

\* The most lines of one evaluation pass.
MaxLines == 3

Num(n) == [type |-> "number", n |-> n, name |-> ""]

Fun(name) == [type |-> "function", n |-> 0, name |-> name]

Str(s) == [type |-> "string", n |-> 0, name |-> s]

Undefined == [type |-> "undefined", n |-> 0, name |-> ""]

\* An object that is neither a number nor a function.
Object(name) == [type |-> "object", n |-> 0, name |-> name]

\* What every object literal inherits: the properties of Object.prototype
\* that the model names, and the prototype itself as __proto__.
ObjectPrototype ==
    [k \in {"toString", "constructor", "__proto__"} |->
        IF k = "__proto__" THEN Object("Object.prototype") ELSE Fun(k)]

\* { latex: "", raw: "" }
Blank == [latex |-> "", raw |-> Str("")]

\* scope[name] = value
Bind(sc, name, value) ==
    [k \in DOMAIN sc \cup {name} |-> IF k = name THEN value ELSE sc[k]]

\* The functions angleUnit === "deg" puts in the scope.
DegreeFunctions ==
    {"sin", "cos", "tan", "sec", "csc", "cot", "asin", "acos", "atan"}

\* The constants the user has defined: c, and x, a name the lines also use
\* as a variable.
UserConstants == [k \in {"c", "x"} |-> IF k = "c" THEN 3 ELSE 11]

\* A scope that also binds every user constant to its value.
scopeWithConstants(unit) ==
    [k \in {"ln", "log", "int", "__const"} \cup DOMAIN UserConstants
           \cup (IF unit = "deg" THEN DegreeFunctions ELSE {}) |->
        IF k \in DOMAIN UserConstants THEN Num(UserConstants[k]) ELSE Fun(k)]

\* const scope = {}; scope.ln = ...; scope.log = ...; scope.int = ...;
\* if (angleUnit === "deg") { ... }; scope.__const = ...
newScope(unit) ==
    [k \in {"ln", "log", "int", "__const"}
           \cup (IF unit = "deg" THEN DegreeFunctions ELSE {}) |-> Fun(k)]

\* The functions mathjs itself resolves a name to when the scope has none.
MathFunctions == FunctionNameSet \ {"__const", "ln", "int"}

\* Syntax trees.
Node(op, name, n, args) == [op |-> op, name |-> name, n |-> n, args |-> args]

Number(n) == Node("number", "", n, << >>)

Symbol(name) == Node("symbol", name, 0, << >>)

Literal(s) == Node("string", s, 0, << >>)

Add(l, r) == Node("add", "", 0, << l, r >>)

Multiply(l, r) == Node("multiply", "", 0, << l, r >>)

Assign(name, value) == Node("assign", name, 0, << value >>)

Apply(name, a) == Node("call", name, 0, << a >>)

UndefinedConstant == Node("undefined", "", 0, << >>)

SyntaxError == Node("error", "", 0, << >>)

\* The expressions of the lines, the empty line among them.
LineTexts ==
    {"", "3+4", "ans*2", "sin", "3+", "x=5", "x", "(x=5)+y",
     "__const(\"c\")", "__const(\"toString\")", "__const(\"__proto__\")",
     "undefined"}

\* math.parse on the expressions of LineTexts.
parse(e) ==
    CASE e = "3+4" -> Add(Number(3), Number(4))
      [] e = "ans*2" -> Multiply(Symbol("ans"), Number(2))
      [] e = "sin" -> Symbol("sin")
      [] e = "x=5" -> Assign("x", Number(5))
      [] e = "x" -> Symbol("x")
      [] e = "(x=5)+y" -> Add(Assign("x", Number(5)), Symbol("y"))
      [] e = "__const(\"c\")" -> Apply("__const", Literal("c"))
      [] e = "__const(\"toString\")" -> Apply("__const", Literal("toString"))
      [] e = "__const(\"__proto__\")" ->
           Apply("__const", Literal("__proto__"))
      [] e = "undefined" -> UndefinedConstant
      [] OTHER -> SyntaxError

\* The outcome of evaluating a tree: a value, or an exception thrown, and the
\* scope as the evaluation left it.
Returned(value, sc) == [threw |-> FALSE, value |-> value, scope |-> sc]

Thrown(sc) == [threw |-> TRUE, value |-> Undefined, scope |-> sc]

\* scope.__const: if (!(k in constantsMap)) throw new Error("Unknown
\* constant"); return constantsMap[k]
\* constantsMap is an object literal: k in constantsMap holds for its own
\* keys and for the properties it inherits, and constantsMap[k] reads both.
constLookup(name, constants, sc) ==
    IF name.name \in DOMAIN constants
    THEN Returned(Num(constants[name.name]), sc)
    ELSE IF name.name \in DOMAIN ObjectPrototype
    THEN Returned(ObjectPrototype[name.name], sc)
    ELSE Thrown(sc)

RECURSIVE evalNode(_, _, _)
\* The operands of a node are evaluated from left to right.
evalNode(node, sc, constants) ==
    LET first == evalNode(node.args[1], sc, constants)
        second == evalNode(node.args[2], first.scope, constants)
    IN CASE node.op = "number" -> Returned(Num(node.n), sc)
         [] node.op = "string" -> Returned(Str(node.name), sc)
         [] node.op = "undefined" -> Returned(Undefined, sc)
         [] node.op = "symbol" ->
              IF node.name \in DOMAIN sc THEN Returned(sc[node.name], sc)
              ELSE IF node.name \in MathFunctions
                   THEN Returned(Fun(node.name), sc)
              ELSE Thrown(sc)
         [] node.op = "assign" ->
              IF first.threw THEN first
              ELSE Returned(first.value,
                            Bind(first.scope, node.name, first.value))
         [] node.op \in {"add", "multiply"} ->
              IF first.threw THEN first
              ELSE IF second.threw THEN second
              ELSE IF first.value.type # "number"
                      \/ second.value.type # "number"
                   THEN Thrown(second.scope)
              ELSE Returned(Num(IF node.op = "add"
                                THEN first.value.n + second.value.n
                                ELSE first.value.n * second.value.n),
                            second.scope)
         [] node.op = "call" ->
              IF first.threw THEN first
              ELSE IF node.name \in DOMAIN first.scope
                      /\ first.scope[node.name] = Fun("__const")
                   THEN constLookup(first.value, constants, first.scope)
              ELSE Thrown(first.scope)
         [] OTHER -> Thrown(sc)

\* math.evaluate(expr, scope)
evaluate(e, sc, constants) == evalNode(parse(e), sc, constants)

(***************************************************************************)
(* evaluateLines: the result of a line                                     *)
(***************************************************************************)

\* On an integer n: Math.abs(n) < eps only for 0, and Math.round(n) is n.
normalizeNumber(n) ==
    LET r == n
    IN IF n = 0 THEN 0 ELSE r

DigitChars == << "0", "1", "2", "3", "4", "5", "6", "7", "8", "9" >>

RECURSIVE digitsOf(_)
\* The decimal digits of a natural number.
digitsOf(n) ==
    IF n < 10 THEN DigitChars[n + 1]
    ELSE digitsOf(n \div 10) \o DigitChars[(n % 10) + 1]

RECURSIVE groupThousands(_)
\* The digits in groups of three, separated by commas.
groupThousands(digits) ==
    IF Len(digits) <= 3 THEN digits
    ELSE groupThousands(Slice(digits, 1, Len(digits) - 2)) \o ","
             \o SliceFrom(digits, Len(digits) - 2)

\* intVal.toLocaleString("en-US")
toLocaleString(n) ==
    IF n < 0 THEN "-" \o groupThousands(digitsOf(0 - n))
    ELSE groupThousands(digitsOf(n))

\* The branches an integer below ten billion takes: zero, and the integer
\* written with commas.  Every number of the model is such an integer.
formatNumberForDisplay(n) ==
    IF n = 0 THEN "0" ELSE toLocaleString(n)

\* math.latex is no function of mathjs, so for a value that is no number
\* the call throws and the catch branch names the result.
resultToLatex(result) ==
    IF result.type = "number" THEN formatNumberForDisplay(result.n)
    ELSE IF result.type = "string" THEN "\\text{" \o result.name \o "}"
    ELSE IF result.type = "object" THEN "[object Object]"
    ELSE result.type

\* A result taken for a value whatever its type.
neverFunction(res) == FALSE

\* typeof res === "function"
isFunction(res) == res.type = "function"

\* A last answer that no result replaces.
keepLastAns(res, last) == last

\* if (res !== undefined) lastAns = res
nextLastAns(res, last) == IF res # Undefined THEN res ELSE last

\* The body of the loop for a line that is not empty: scope.ans = lastAns;
\* scope.Ans = lastAns; res = math.evaluate(expr, scope); ...
\* What is pushed to out, and the scope and the last answer afterwards.
evaluateLine(e, sc, last, constants) ==
    LET bound == Bind(Bind(sc, "ans", last), "Ans", last)
        res == evaluate(e, bound, constants)
        value == IF res.value.type = "number"
                 THEN Num(normalizeNumber(res.value.n))
                 ELSE res.value
    IN IF res.threw
       THEN [outcome |-> "threw", pushed |-> Blank, scope |-> res.scope,
             lastAns |-> last]
       ELSE IF isFunction(res.value)
       THEN [outcome |-> "function", pushed |-> Blank, scope |-> res.scope,
             lastAns |-> last]
       ELSE [outcome |-> "value",
             pushed |-> [latex |-> resultToLatex(value), raw |-> value],
             scope |-> res.scope,
             lastAns |-> nextLastAns(value, last)]

RECURSIVE evaluateFrom(_, _, _, _, _)
\* for (const line of lines) { ... }, from line i on: what is pushed to out,
\* each entry with the outcome of its line.
evaluateFrom(ls, i, sc, last, constants) ==
    IF i > Len(ls) THEN << >>
    ELSE IF ls[i].text = ""
    THEN << [outcome |-> "empty", pushed |-> Blank] >>
             \o evaluateFrom(ls, i + 1, sc, last, constants)
    ELSE LET r == evaluateLine(ls[i].text, sc, last, constants)
         IN << [outcome |-> r.outcome, pushed |-> r.pushed] >>
                \o evaluateFrom(ls, i + 1, r.scope, r.lastAns, constants)

\* evaluateLines(lines, angleUnit, constantsMap) as a function.
evaluateLines(ls, unit, constants) ==
    evaluateFrom(ls, 1, newScope(unit), Num(0), constants)

(***************************************************************************)
(* evaluateLines, statement by statement                                   *)
(***************************************************************************)

RECURSIVE LineLists(_)
\* The lists of at most n lines.
LineLists(n) ==
    IF n = 0 THEN {<< >>}
    ELSE LET shorter == LineLists(n - 1)
         IN shorter
            \cup {Append(ls, [text |-> t]) : ls \in shorter, t \in LineTexts}

\* The constants mappings of the model: none, and the constants c and x.
ConstantsMaps == {<< >>, UserConstants}

\* The state on entry of the loop: scope built, out empty, lastAns 0.
InitEvaluation ==
    /\ lines \in LineLists(MaxLines)
    /\ angleUnit \in {"deg", "rad"}
    /\ constantsMap \in ConstantsMaps
    /\ scope = newScope(angleUnit)
    /\ out = << >>
    /\ lastAns = Num(0)
    /\ line = 1
    /\ linePc = "loop"
    /\ FieldIdle
    /\ EditorIdle
    /\ RewriterIdle
    /\ PipelineIdle

\* if (!expr) { out.push({ latex: "", raw: "" }); continue; }
SkipEmptyLine ==
    /\ linePc = "loop"
    /\ line <= Len(lines)
    /\ lines[line].text = ""
    /\ out' = Append(out, Blank)
    /\ line' = line + 1
    /\ UNCHANGED << lines, angleUnit, constantsMap, scope, lastAns, linePc,
                    editorVars, fieldVars, rewriterVars, pipelineVars >>

\* scope.ans = lastAns; scope.Ans = lastAns
BindAns ==
    /\ linePc = "loop"
    /\ line <= Len(lines)
    /\ lines[line].text # ""
    /\ scope' = Bind(Bind(scope, "ans", lastAns), "Ans", lastAns)
    /\ linePc' = "evaluate"
    /\ UNCHANGED << lines, angleUnit, constantsMap, lastAns, out, line,
                    editorVars, fieldVars, rewriterVars, pipelineVars >>

\* let res = math.evaluate(expr, scope) and what follows it in the try
\* block, or the catch block.
Evaluate(outcome) ==
    /\ linePc = "evaluate"
    /\ LET r == evaluateLine(lines[line].text, scope, lastAns, constantsMap)
       IN /\ r.outcome = outcome
          /\ scope' = r.scope
          /\ lastAns' = r.lastAns
          /\ out' = Append(out, r.pushed)
    /\ line' = line + 1
    /\ linePc' = "loop"
    /\ UNCHANGED << lines, angleUnit, constantsMap, editorVars, fieldVars,
                    rewriterVars, pipelineVars >>

\* typeof res === "function": blank result
EvaluateToFunction == Evaluate("function")

\* lastAns = res; out.push({ latex: resultToLatex(res), raw: res })
EvaluateToValue == Evaluate("value")

\* catch (err) { out.push({ latex: "", raw: "" }) }
EvaluateThrows == Evaluate("threw")

\* return out
ReturnOut ==
    /\ linePc = "loop"
    /\ line > Len(lines)
    /\ linePc' = "done"
    /\ UNCHANGED << lines, angleUnit, constantsMap, scope, lastAns, out,
                    line, editorVars, fieldVars, rewriterVars, pipelineVars >>

NextEvaluation ==
    \/ SkipEmptyLine
    \/ BindAns
    \/ EvaluateToFunction
    \/ EvaluateToValue
    \/ EvaluateThrows
    \/ ReturnOut

SpecEvaluation == InitEvaluation /\ [][NextEvaluation]_vars

\* The statements compute what the function returns.
EvaluationReturnsEvaluateLines ==
    linePc = "done" =>
        LET r == evaluateLines(lines, angleUnit, constantsMap)
        IN /\ Len(r) = Len(out)
           /\ \A i \in DOMAIN r : r[i].pushed = out[i]

(***************************************************************************)
(* evaluateLines: properties                                               *)
(***************************************************************************)

\* The lines with those of `failing` replaced by lines that produce no value.
WithoutLines(ls, failing) ==
    [i \in DOMAIN ls |-> IF i \in failing THEN [text |-> ""] ELSE ls[i]]

\* C1: evaluateLines returns one result per line, in the order of the lines;
\* a line whose evaluation throws gets a blank result, and every other line
\* gets the result it gets when the failing lines produce no value at all.
C1_FailuresIsolated ==
    linePc = "done" =>
        LET run == evaluateLines(lines, angleUnit, constantsMap)
            failing == {i \in DOMAIN run : run[i].outcome = "threw"}
            reference == evaluateLines(WithoutLines(lines, failing),
                                       angleUnit, constantsMap)
        IN /\ Len(out) = Len(lines)
           /\ \A i \in failing : out[i] = Blank
           /\ \A i \in DOMAIN lines \ failing : out[i] = reference[i].pushed

RECURSIVE lastValue(_)
\* The value of the last of the results that holds one: a result that is
\* not blank (the result of an empty line, of a line that failed and of a
\* line that gave a function) and not undefined; 0 when there is none.
lastValue(results) ==
    IF results = << >> THEN Num(0)
    ELSE LET raw == results[Len(results)].raw
         IN IF raw # Str("") /\ raw # Undefined THEN raw
            ELSE lastValue(SubSeq(results, 1, Len(results) - 1))

\* C2: when a line is evaluated, ans and Ans are both bound to the result of
\* the last earlier line that produced a value, and to 0 when there is none:
\* an empty line, a line that fails and a line that yields a function leave
\* the last answer as it was.  The lines 3+4 and ans*2 give 7 and 14.
C2_AnsIsLastResult ==
    /\ linePc = "evaluate" =>
           /\ scope["ans"] = lastValue(out)
           /\ scope["Ans"] = lastValue(out)
    /\ (linePc = "done"
            /\ lines = << [text |-> "3+4"], [text |-> "ans*2"] >>) =>
           /\ out[1].latex = "7"
           /\ out[2].latex = "14"

\* 3+4, then a line that yields a function, then ans*2: the third line is
\* evaluated with ans bound to 7.
C2_Witness ==
    /\ linePc = "evaluate"
    /\ line = 3
    /\ lines = << [text |-> "3+4"], [text |-> "sin"], [text |-> "ans*2"] >>
    /\ scope["ans"] = Num(7)
    /\ out[2] = Blank

\* The keys of the constants the lines of the model call.
CalledKeys == {"c", "toString", "__proto__"}

\* C14: a line that calls __const("key") for a key absent from the constants
\* mapping gets a blank result: the lookup throws, the exception is caught
\* at the line, the last answer stays as it was and the loop goes on.
C14_UnknownConstantBlank ==
    [][\A k \in CalledKeys :
          (/\ linePc = "evaluate"
           /\ lines[line].text = ConstCall(k)
           /\ k \notin DOMAIN constantsMap)
              => /\ evaluateLine(lines[line].text, scope, lastAns,
                                 constantsMap).outcome = "threw"
                 /\ out' = Append(out, Blank)
                 /\ lastAns' = lastAns
                 /\ linePc' = "loop"]_vars

\* C15: a line whose evaluation returns a function, as the bare name sin
\* does, gets a blank result; nothing is thrown, the function is not
\* returned and the last answer stays as it was.
C15_FunctionResultBlank ==
    /\ [](linePc = "evaluate" /\ lines[line].text = "sin"
            => LET res == evaluate("sin", scope, constantsMap)
               IN ~res.threw /\ res.value.type = "function")
    /\ [][(/\ linePc = "evaluate"
           /\ LET res == evaluate(lines[line].text, scope, constantsMap)
              IN ~res.threw /\ res.value.type = "function")
              => /\ out' = Append(out, Blank)
                 /\ lastAns' = lastAns
                 /\ line' = line + 1
                 /\ linePc' = "loop"]_vars

\* 3+4, then sin: the second result is blank and the last answer is still 7.
C15_Witness ==
    /\ linePc = "loop"
    /\ line = 3
    /\ lines[1].text = "3+4" /\ lines[2].text = "sin"
    /\ out = << [latex |-> "7", raw |-> Num(7)], Blank >>
    /\ lastAns = Num(7)

\* C25: a constant's value enters a result only through __const("key").  A
\* line that is the bare identifier of a constant key is looked up in the
\* scope like any other name: unbound, its entry is blank and the last answer
\* stays; bound by an assignment, it has the assigned value; in neither case
\* the constant's.  No scope entry and no result of another line holds a
\* constant's value.
C25_ConstantsOnlyThroughBadge ==
    /\ [](\A i \in DOMAIN out, k \in DOMAIN constantsMap :
             out[i].raw = Num(constantsMap[k]) => lines[i].text = ConstCall(k))
    /\ [](\A k \in DOMAIN constantsMap :
             k \in DOMAIN scope => scope[k] # Num(constantsMap[k]))
    /\ [][(/\ linePc = "evaluate"
           /\ lines[line].text \in DOMAIN constantsMap)
              => LET k == lines[line].text
                 IN /\ out'[line].raw # Num(constantsMap[k])
                    /\ IF k \in DOMAIN scope
                       THEN out'[line].raw = scope[k]
                       ELSE out'[line] = Blank /\ lastAns' = lastAns]_vars

\* The identifier x while x is a constant and no variable, then the badge
\* of the constant c.
C25_Witness ==
    /\ linePc = "done"
    /\ constantsMap = UserConstants
    /\ lines = << [text |-> "x"], [text |-> ConstCall("c")] >>
    /\ out = << Blank, [latex |-> "3", raw |-> Num(3)] >>

\* C17: the only state carried from a line to a later one is the last
\* answer: a line gets the result it gets in a scope that no earlier line
\* has written to, given the same angle unit, constants and last answer.  A
\* variable assigned by an earlier line, as in x=5, is not visible later.
C17_OnlyLastAnswerCarried ==
    linePc = "evaluate" =>
        evaluateLine(lines[line].text, scope, lastAns, constantsMap).pushed
            = evaluateLine(lines[line].text, newScope(angleUnit), lastAns,
                           constantsMap).pushed

(***************************************************************************)
(* MathQuillField: the registration of the embed "const"                   *)
(*                                                                         *)
(* JavaScript runs one callback at a time, to its end or to its next       *)
(* await.  The effect of an instance has one await, the import of jquery;  *)
(* what follows it runs as one step, as does the mount callback.  When the *)
(* bundled MathQuill puts itself on the window is not in the hands of this *)
(* code: it is a step of its own, at any moment.                           *)
(***************************************************************************)

\* The instances of MathQuillField on the page.
NumFields == 3

Fields == 1 .. NumFields

\* A registration that does not look at the flag.
registerUnguarded(w) ==
    IF w.MathQuill
    THEN [w EXCEPT !.registerEmbedCalls = @ + 1,
                   !.mqConstEmbedRegistered = TRUE]
    ELSE w

\* if (w.__mqConstEmbedRegistered) return;
\* if (MQ?.registerEmbed) { MQ.registerEmbed("const", ...);
\*                          w.__mqConstEmbedRegistered = true }
registerConstEmbed(w) ==
    IF w.mqConstEmbedRegistered THEN w
    ELSE IF w.MathQuill
         THEN [w EXCEPT !.registerEmbedCalls = @ + 1,
                        !.mqConstEmbedRegistered = TRUE]
    ELSE w

\* A page that has just loaded: no instance has run its effect or has been
\* mounted by MathQuill, the flag is not set.  MathQuill may be on the window
\* already.
InitFields ==
    /\ fields = [f \in Fields |-> [init |-> "start", mount |-> "pending"]]
    /\ window \in {[MathQuill |-> mq, mqConstEmbedRegistered |-> FALSE,
                     registerEmbedCalls |-> 0] : mq \in BOOLEAN}
    /\ lines = << >>
    /\ angleUnit = "rad" /\ constantsMap = << >>
    /\ scope = << >> /\ lastAns = 0 /\ out = << >> /\ line = 0
    /\ linePc = "idle"
    /\ EditorIdle
    /\ RewriterIdle
    /\ PipelineIdle

\* The bundled MathQuill exposes itself as window.MathQuill.
LoadMathQuill ==
    /\ ~window.MathQuill
    /\ window' = [window EXCEPT !.MathQuill = TRUE]
    /\ UNCHANGED << fields, lines, angleUnit, constantsMap, scope, lastAns,
                    out, line, linePc, editorVars, rewriterVars,
                    pipelineVars >>

\* useEffect(() => { ... void init() ... }, []) up to
\* const jqMod = await import("jquery")
InitAwaitImport(f) ==
    /\ fields[f].init = "start"
    /\ fields' = [fields EXCEPT ![f].init = "awaiting"]
    /\ UNCHANGED << window, lines, angleUnit, constantsMap, scope, lastAns,
                    out, line, linePc, editorVars, rewriterVars,
                    pipelineVars >>

\* init() from the end of the await to its return.
InitResume(f) ==
    /\ fields[f].init = "awaiting"
    /\ fields' = [fields EXCEPT ![f].init = "done"]
    /\ window' = registerConstEmbed(window)
    /\ UNCHANGED << lines, angleUnit, constantsMap, scope, lastAns, out,
                    line, linePc, editorVars, rewriterVars, pipelineVars >>

\* mathquillDidMount={(mf) => { ... }}
MathquillDidMount(f) ==
    /\ fields[f].mount = "pending"
    /\ fields' = [fields EXCEPT ![f].mount = "done"]
    /\ window' = registerConstEmbed(window)
    /\ UNCHANGED << lines, angleUnit, constantsMap, scope, lastAns, out,
                    line, linePc, editorVars, rewriterVars, pipelineVars >>

NextFields ==
    \/ LoadMathQuill
    \/ \E f \in Fields : InitAwaitImport(f)
    \/ \E f \in Fields : InitResume(f)
    \/ \E f \in Fields : MathquillDidMount(f)

SpecFields == InitFields /\ [][NextFields]_vars

\* C27: whatever the number of instances and the order in which their
\* effects and mount callbacks run, registerEmbed("const", ...) is called
\* at most once in a page load, and the flag is set exactly when it was.
C27_EmbedRegisteredAtMostOnce ==
    /\ window.registerEmbedCalls <= 1
    /\ window.mqConstEmbedRegistered <=> window.registerEmbedCalls = 1

\* Every instance has run its effect and its mount callback; the embed is
\* registered once.
C27_Witness ==
    /\ \A f \in Fields : fields[f] = [init |-> "done", mount |-> "done"]
    /\ window.MathQuill
    /\ window.registerEmbedCalls = 1

(***************************************************************************)
(* Home: the lines of the sheet and the undo history                       *)
(*                                                                         *)
(* An index of the code is the position index + 1 here, for the lines and  *)
(* for the undo stack.  The callbacks that React and the browser run after *)
(* a handler are part of the action of that handler when they run before   *)
(* the next event (the effect that follows a change of lines, and the      *)
(* animation frame that moves the focus), and actions of their own when    *)
(* they run later (the commit timer, and the animation frame that ends a   *)
(* restore).                                                               *)
(***************************************************************************)

\* The most lines on the sheet.
MaxRows == 2

\* The most events (edits of a line, lines added and removed, undos, loads
\* of the page) in one run.
MaxEdits == 3

\* The most snapshots the undo stack keeps (150 in the code).
MAX_UNDO_SNAPSHOTS == 2

\* { latex, text }
Line(l, t) == [latex |-> l, text |-> t]

\* { latex: "", text: "" }
BlankLine == Line("", "")

\* What a field reports on a change: mf.latex() and mf.text().  The plain
\* text is what MathQuill makes of the markup; two contents share a markup.
FieldContents ==
    {Line("", ""), Line("2\\sin3", "2*sin 3"), Line("2\\sin3", ""),
     Line("\\frac12", "(1)/(2)")}

\* JSON.stringify of a line
lineJson(l) ==
    "{\"latex\":" \o JsonStringify(l.latex) \o ",\"text\":"
        \o JsonStringify(l.text) \o "}"

RECURSIVE linesJson(_)
linesJson(ls) ==
    IF ls = << >> THEN ""
    ELSE IF Len(ls) = 1 THEN lineJson(ls[1])
    ELSE lineJson(ls[1]) \o "," \o linesJson(Tail(ls))

\* JSON.stringify(snap) of a snapshot written { lines, activeIndex }, as
\* commitUndoNow and the seed of the history write it.
snapshotSignature(snap) ==
    "{\"lines\":[" \o linesJson(snap.lines) \o "],\"activeIndex\":"
        \o digitsOf(snap.activeIndex - 1) \o "}"

\* JSON.stringify(snap) of a snapshot of the stack: cloneSnapshot writes
\* { activeIndex, lines }, and the stored stack is parsed in that order.
storedSignature(snap) ==
    "{\"activeIndex\":" \o digitsOf(snap.activeIndex - 1) \o ",\"lines\":["
        \o linesJson(snap.lines) \o "]}"

\* A copy that keeps the markup of each line and drops its text.
cloneMarkupOnly(snap) ==
    [activeIndex |-> snap.activeIndex,
     lines |-> [i \in DOMAIN snap.lines |-> Line(snap.lines[i].latex, "")]]

cloneSnapshot(snap) ==
    [activeIndex |-> snap.activeIndex,
     lines |-> [i \in DOMAIN snap.lines |->
                   Line(snap.lines[i].latex, snap.lines[i].text)]]

\* undoRef.current before the first effect; lastSig null is the empty string.
NewUndo ==
    [stack |-> << >>, index |-> 1, lastSig |-> "", restoring |-> FALSE,
     commitTimer |-> FALSE]

\* A push that never drops the oldest snapshots.
pushUnbounded(u, snap) ==
    LET sig == snapshotSignature(snap)
        kept == IF u.index < Len(u.stack) THEN SubSeq(u.stack, 1, u.index)
                ELSE u.stack
        pushed == Append(kept, cloneSnapshot(snap))
    IN IF u.restoring THEN u
       ELSE IF sig = u.lastSig THEN u
       ELSE [u EXCEPT !.stack = pushed, !.index = Len(pushed),
                      !.lastSig = sig]

\* pushUndoSnapshot(snap): undoRef.current afterwards.
pushUndoSnapshot(u, snap) ==
    LET sig == snapshotSignature(snap)
        kept == IF u.index < Len(u.stack) THEN SubSeq(u.stack, 1, u.index)
                ELSE u.stack
        pushed == Append(kept, cloneSnapshot(snap))
        overflow == Len(pushed) - MAX_UNDO_SNAPSHOTS
    IN IF u.restoring THEN u
       ELSE IF sig = u.lastSig THEN u
       ELSE IF overflow > 0
       THEN [u EXCEPT !.stack = SubSeq(pushed, overflow + 1, Len(pushed)),
                      !.index = Max(1, Len(pushed) - overflow),
                      !.lastSig = sig]
       ELSE [u EXCEPT !.stack = pushed, !.index = Len(pushed),
                      !.lastSig = sig]

\* commitUndoNow(), with linesRef.current and activeIndexRef.current
commitUndoNow(u, ls, active) ==
    pushUndoSnapshot(u, [lines |-> ls, activeIndex |-> active])

\* scheduleUndoCommit(): the timer is set anew unless a restore is going on.
scheduleUndoCommit(u) ==
    IF u.restoring THEN u ELSE [u EXCEPT !.commitTimer = TRUE]

\* Math.max(0, Math.min(snap.activeIndex, snap.lines.length - 1))
safeIndex(snap) ==
    Max(1, IF snap.activeIndex <= Len(snap.lines) THEN snap.activeIndex
           ELSE Len(snap.lines))

\* The first render and its two effects, with no history stored: the timer
\* is set, then the history is seeded with the blank sheet.
InitEditor ==
    /\ lines = << BlankLine >>
    /\ activeIndex = 1
    /\ undo = pushUndoSnapshot(scheduleUndoCommit(NewUndo),
                               [lines |-> << BlankLine >>, activeIndex |-> 1])
    /\ index = 0
    /\ edits = 0
    /\ beforeRemoval = << >>
    /\ ResultIdle
    /\ RewriterIdle
    /\ PipelineIdle

\* One more event is handled, one that removes no line.
Event == edits < MaxEdits /\ edits' = edits + 1 /\ beforeRemoval' = << >>

\* updateLine(index, latex, text), up to the call of toMathExpression
UpdateLine ==
    /\ pc = "idle"
    /\ Event
    /\ \E i \in 1 .. Len(lines), f \in FieldContents :
          /\ index' = i
          /\ latex' = f.latex
          /\ text' = f.text
    /\ pc' = "base"
    /\ UNCHANGED << base, normalized, withFnCalls, finalExpr, expr,
                    canonical, lines, activeIndex, undo, resultVars,
                    rewriterVars >>

\* next[index] = { latex, text: expr }, and the effect that follows the
\* change of lines.
StoreLine ==
    /\ pc = "done"
    /\ index # 0
    /\ lines' = [lines EXCEPT ![index] = Line(latex, finalExpr)]
    /\ undo' = scheduleUndoCommit(undo)
    /\ index' = 0
    /\ latex' = "" /\ text' = "" /\ pc' = "idle"
    /\ base' = "" /\ normalized' = "" /\ withFnCalls' = "" /\ finalExpr' = ""
    /\ expr' = ""
    /\ canonical' = << >>
    /\ UNCHANGED << activeIndex, edits, beforeRemoval, resultVars,
                    rewriterVars >>

\* addLineAfter(index)
AddLineAfter ==
    /\ pc = "idle"
    /\ Event
    /\ Len(lines) < MaxRows
    /\ \E i \in 1 .. Len(lines) :
          /\ lines' = SubSeq(lines, 1, i) \o << BlankLine >>
                          \o SubSeq(lines, i + 1, Len(lines))
          /\ activeIndex' = i + 1
    /\ undo' = scheduleUndoCommit(commitUndoNow(undo, lines, activeIndex))
    /\ UNCHANGED << index, resultVars, rewriterVars, pipelineVars >>

\* removeLine(index)
RemoveLine ==
    /\ pc = "idle"
    /\ edits < MaxEdits
    /\ edits' = edits + 1
    /\ beforeRemoval' = [lines |-> lines, activeIndex |-> activeIndex]
    /\ \E i \in 1 .. Len(lines) :
          IF Len(lines) <= 1
          THEN lines' = << BlankLine >> /\ activeIndex' = 1
          ELSE /\ lines' = SubSeq(lines, 1, i - 1)
                               \o SubSeq(lines, i + 1, Len(lines))
               /\ activeIndex' = Max(1, i - 1)
    /\ undo' = scheduleUndoCommit(commitUndoNow(undo, lines, activeIndex))
    /\ UNCHANGED << index, resultVars, rewriterVars, pipelineVars >>

\* applySnapshot(snap), and the effect that follows: no commit is scheduled
\* while the restore is going on.
applySnapshot(u, snap) ==
    /\ lines' = cloneSnapshot(snap).lines
    /\ activeIndex' = safeIndex(snap)
    /\ undo' = scheduleUndoCommit([u EXCEPT !.restoring = TRUE])

\* undoOnce()
UndoOnce ==
    /\ pc = "idle"
    /\ Event
    /\ Len(undo.stack) # 0
    /\ undo.index > 1
    /\ applySnapshot([undo EXCEPT !.index = undo.index - 1],
                     undo.stack[undo.index - 1])
    /\ UNCHANGED << index, resultVars, rewriterVars, pipelineVars >>

\* The timer set by scheduleUndoCommit fires: commitUndoNow()
CommitTimer ==
    /\ pc = "idle"
    /\ undo.commitTimer
    /\ undo' = commitUndoNow([undo EXCEPT !.commitTimer = FALSE], lines,
                             activeIndex)
    /\ UNCHANGED << lines, activeIndex, index, edits, beforeRemoval,
                    resultVars, rewriterVars, pipelineVars >>

\* requestAnimationFrame(() => { undoRef.current.restoring = false })
AnimationFrame ==
    /\ pc = "idle"
    /\ undo.restoring
    /\ undo' = [undo EXCEPT !.restoring = FALSE]
    /\ UNCHANGED << lines, activeIndex, index, edits, beforeRemoval,
                    resultVars, rewriterVars, pipelineVars >>

\* The page is loaded again: the first render sets the timer, then the
\* stored history is taken over and the snapshot it points at is restored.
Reload ==
    /\ pc = "idle"
    /\ Event
    /\ LET at == Max(1, IF undo.index <= Len(undo.stack) THEN undo.index
                        ELSE Len(undo.stack))
           loaded == [stack |-> undo.stack, index |-> at,
                      lastSig |-> storedSignature(undo.stack[at]),
                      restoring |-> FALSE, commitTimer |-> TRUE]
       IN applySnapshot(loaded, undo.stack[at])
    /\ UNCHANGED << index, resultVars, rewriterVars, pipelineVars >>

NextEditor ==
    \/ UpdateLine
    \/ ComputeBase
    \/ UnwrapDelimiters
    \/ ReplaceAllFrac
    \/ ReplaceAllSqrt
    \/ ReplaceAbs
    \/ ReplaceFloor
    \/ ReplaceCeil
    \/ ReplaceOperatorName
    \/ ReplaceEmbed
    \/ SubstituteSymbols
    \/ ReplaceAllPowers
    \/ StripBraces
    \/ ReturnBase
    \/ Normalize
    \/ InsertFunctionCalls
    \/ InsertMultiplication
    \/ Return
    \/ StoreLine
    \/ AddLineAfter
    \/ RemoveLine
    \/ UndoOnce
    \/ CommitTimer
    \/ AnimationFrame
    \/ Reload

SpecEditor == InitEditor /\ [][NextEditor]_vars

\* The plain texts a field reports.
FieldTexts == {f.text : f \in FieldContents}

\* The text stored with a line is toMathExpression of its markup and the
\* plain text of a field; for a markup that is not empty, whatever the
\* plain text.
Derived(l) ==
    IF l.latex # ""
    THEN \A p \in FieldTexts : l.text = toMathExpression(l.latex, p)
    ELSE \E p \in FieldTexts : l.text = toMathExpression("", p)

\* C16: after any sequence of updateLine, addLineAfter, removeLine and undo,
\* the text stored with each line is toMathExpression of the line's markup
\* and the plain text of its field, and for a markup that is not empty it is
\* the same whatever the plain text: the sheet starts that way, and every
\* step that changes the lines leaves each of them with the text derived
\* from its markup.
C16_TextDerivedFromMarkup ==
    /\ \A i \in DOMAIN lines : Derived(lines[i])
    /\ [][lines' # lines => \A i \in DOMAIN lines' : Derived(lines'[i])]_vars

\* An undo has put back a line with markup, and the restore is still going
\* on.
C16_Witness ==
    /\ pc = "idle"
    /\ undo.restoring
    /\ undo.index = 1
    /\ Len(undo.stack) = 2
    /\ lines = << Line("2\\sin3", "2*sin3") >>

\* C28: the undo that follows the removal of a line, with no other event in
\* between, puts back the lines and the active index the sheet had just
\* before the removal, whether the commit timer fired in between or not.
C28_UndoRestoresRemovedLine ==
    [][(DOMAIN beforeRemoval # {} /\ UndoOnce)
          => /\ lines' = beforeRemoval.lines
             /\ activeIndex' = beforeRemoval.activeIndex]_vars

\* C29: the undo stack holds at most MAX_UNDO_SNAPSHOTS snapshots, and its
\* index is a position of the stack when the stack is not empty (0 to
\* length - 1 in the code, 1 to length here).
C29_StackBoundedIndexInside ==
    /\ Len(undo.stack) <= MAX_UNDO_SNAPSHOTS
    /\ undo.stack # << >> => undo.index >= 1 /\ undo.index <= Len(undo.stack)

\* The stack is full and has dropped the snapshot of the blank sheet it
\* began with.
C29_Witness ==
    /\ Len(undo.stack) = MAX_UNDO_SNAPSHOTS
    /\ undo.index = MAX_UNDO_SNAPSHOTS
    /\ undo.stack[1].lines # << BlankLine >>

\* C30: no two snapshots next to each other in the undo stack have the same
\* signature.
C30_NoAdjacentDuplicates ==
    \A i \in 1 .. (Len(undo.stack) - 1) :
        storedSignature(undo.stack[i]) # storedSignature(undo.stack[i + 1])

====
